---------------------------- MODULE Spec2Model ----------------------------
(***************************************************************************)
(* MDView: the Markdown-to-terminal renderer (src/src/terminal.rs) and the *)
(* plain-text converter (src/src/markdown.rs) as state machines over the   *)
(* event stream of the pulldown-cmark parser, with the detection of the    *)
(* terminal's capabilities, the command line and the recent files of       *)
(* src/src/main.rs, and the viewer window of src/src/viewer.rs.            *)
(*                                                                         *)
(* A string is a sequence of one-character strings.  The byte 0x1b is the  *)
(* token "ESC"; a non-ASCII character is the token "U+xxxx" of its code    *)
(* point, the backquote the token "BACKTICK".  Option<T> is a sequence of  *)
(* length 0 (None) or 1 (Some).                                            *)
(***************************************************************************)
EXTENDS Integers, Sequences, FiniteSets, TLC

(***************************************************************************)
(* Bounds: the number of Start and leaf events of one document, for each   *)
(* family of documents (End events are not counted, so that every document *)
(* can be closed and finished).                                            *)
(***************************************************************************)
MaxEvents == 3

MaxStyleEvents == 5

MaxLinkEvents == 5

MaxTableEvents == 6

MaxListEvents == 4

MaxPlainEvents == 4

\* render_to_terminal called again and again: the events of one call
MaxCallEvents == 3

\* documents of headings and paragraphs
MaxDocEvents == 4

\* sequences of any events, balanced or not, handed to process_event
MaxAnyEvents == 2

\* sequences of block quotes, paragraphs and list items, balanced or not
MaxQuoteEvents == 4

\* tables with links in their cells
MaxCellLinkEvents == 5

\* tables whose events are recorded: the events of a balanced stream, and
\* of a sequence of any table and cell-content events
MaxGridEvents == 6

MaxGridAnyEvents == 3

\* the number of arguments of a command line
MaxArgs == 3

\* styled documents: headings and paragraphs of text, code spans, nested
\* style spans and links
MaxSgrEvents == 4

\* the paths of the files a user opens; one more than the list can hold
NPaths == 11

\* create_viewer: the host windows one thread asks for
MaxViewers == 3

\* create_viewer: the 30 seconds of the wait loop, in sleeps of the loop
TimeoutTicks == 2

\* lists whose events are recorded
MaxItemEvents == 5

\* paragraphs, code blocks, links and tables: the events of a balanced
\* stream, and of a sequence of any of their events
MaxRouteEvents == 5

MaxRouteAnyEvents == 3

---------------------------------------------------------------------------
(* Strings *)

ESC == "ESC"

NL == "\n"

\* the character 0x60
BACKTICK == "BACKTICK"

RECURSIVE Repeat(_, _)
Repeat(s, n) == IF n <= 0 THEN <<>> ELSE s \o Repeat(s, n - 1)

DigitChars == <<"0", "1", "2", "3", "4", "5", "6", "7", "8", "9">>

\* format!("{}", n) of an unsigned integer
RECURSIVE Decimal(_)
Decimal(n) ==
    IF n < 10 THEN <<DigitChars[n + 1]>>
    ELSE Decimal(n \div 10) \o <<DigitChars[(n % 10) + 1]>>

EndsWith(s, t) ==
    /\ Len(s) >= Len(t)
    /\ SubSeq(s, Len(s) - Len(t) + 1, Len(s)) = t

StartsWith(s, t) ==
    /\ Len(s) >= Len(t)
    /\ SubSeq(s, 1, Len(t)) = t

\* t occurs in s as a contiguous substring
Contains(s, t) ==
    \E i \in 1..(Len(s) - Len(t) + 1) : SubSeq(s, i, i + Len(t) - 1) = t

Max(a, b) == IF a >= b THEN a ELSE b

\* the mutant of saturating_sub for C16 and C20: the plain difference
plain_sub(a, b) == a - b

\* u32::saturating_sub, usize::saturating_sub
saturating_sub(a, b) == IF a >= b THEN a - b ELSE 0

Range(s) == {s[i] : i \in DOMAIN s}

\* the greatest and the least element of a non-empty set of integers
SetMax(S) == CHOOSE x \in S : \A y \in S : y <= x

SetMin(S) == CHOOSE x \in S : \A y \in S : x <= y

\* the first position from i on where s holds c, Len(s) + 1 when there is none
RECURSIVE Find(_, _, _)
Find(s, c, i) ==
    IF i > Len(s) \/ s[i] = c THEN i ELSE Find(s, c, i + 1)

\* the lines of s from position start on, the first of them ending before e
RECURSIVE LinesFrom(_, _)
LineTo(s, start, e) ==
    <<SubSeq(s, start, e - 1)>> \o LinesFrom(s, e + 1)

LinesFrom(s, start) ==
    IF start > Len(s) THEN <<>> ELSE LineTo(s, start, Find(s, NL, start))

\* the mutant of Lines for C26: str::split('\n'), which yields the empty
\* piece after a final newline
Lines_split(s) ==
    IF s # <<>> /\ s[Len(s)] = NL THEN Append(LinesFrom(s, 1), <<>>) ELSE LinesFrom(s, 1)

\* str::lines(): split on "\n"; a final empty line is not yielded
Lines(s) == LinesFrom(s, 1)

---------------------------------------------------------------------------
(* mod ansi *)

RESET == <<ESC, "[", "0", "m">>

BOLD == <<ESC, "[", "1", "m">>

DIM == <<ESC, "[", "2", "m">>

ITALIC == <<ESC, "[", "3", "m">>

UNDERLINE == <<ESC, "[", "4", "m">>

STRIKETHROUGH == <<ESC, "[", "9", "m">>

FG_GREEN == <<ESC, "[", "3", "2", "m">>

FG_YELLOW == <<ESC, "[", "3", "3", "m">>

FG_BLUE == <<ESC, "[", "3", "4", "m">>

FG_MAGENTA == <<ESC, "[", "3", "5", "m">>

FG_CYAN == <<ESC, "[", "3", "6", "m">>

FG_GRAY == <<ESC, "[", "9", "0", "m">>

BG_GRAY == <<ESC, "[", "1", "0", "0", "m">>

fg_rgb(r, g, b) ==
    <<ESC, "[", "3", "8", ";", "2", ";">> \o Decimal(r) \o <<";">>
        \o Decimal(g) \o <<";">> \o Decimal(b) \o <<"m">>

bg_rgb(r, g, b) ==
    <<ESC, "[", "4", "8", ";", "2", ";">> \o Decimal(r) \o <<";">>
        \o Decimal(g) \o <<";">> \o Decimal(b) \o <<"m">>

\* the mutant of hyperlink_start for C5: the string terminator left out
hyperlink_start_unterminated(url) == <<ESC, "]", "8", ";", ";">> \o url

hyperlink_start(url) == <<ESC, "]", "8", ";", ";">> \o url \o <<ESC, "\\">>

HYPERLINK_END == <<ESC, "]", "8", ";", ";", ESC, "\\">>

(* mod unicode *)

BULLET == "U+2022"

CHECKBOX_UNCHECKED == "U+2610"

CHECKBOX_CHECKED == "U+2611"

QUOTE_BAR == "U+2502"

HORIZONTAL_LINE == "U+2500"

TABLE_TOP_LEFT == "U+250C"

TABLE_TOP_RIGHT == "U+2510"

TABLE_BOTTOM_LEFT == "U+2514"

TABLE_BOTTOM_RIGHT == "U+2518"

TABLE_HORIZONTAL == "U+2500"

TABLE_VERTICAL == "U+2502"

TABLE_CROSS == "U+253C"

TABLE_T_DOWN == "U+252C"

TABLE_T_UP == "U+2534"

TABLE_T_RIGHT == "U+251C"

TABLE_T_LEFT == "U+2524"

---------------------------------------------------------------------------
(* Capability profiles *)

AllCaps ==
    [true_color : BOOLEAN, hyperlinks : BOOLEAN,
     unicode : BOOLEAN, basic_ansi : BOOLEAN]

\* TerminalCaps::basic()
basic ==
    [true_color |-> FALSE, hyperlinks |-> FALSE,
     unicode |-> FALSE, basic_ansi |-> FALSE]

---------------------------------------------------------------------------
(* TerminalCaps::detect: a function of the environment of the process and  *)
(* of the platform the program was built for.                              *)

\* the value of an environment variable, as env::var reads it: not set, set
\* to a value that is not valid Unicode, or set to a string
Unset == [st |-> "unset", val |-> <<>>]

NotUnicode == [st |-> "invalid", val |-> <<>>]

Value(s) == [st |-> "ok", val |-> s]

\* Result::is_ok of env::var
is_ok(v) == v.st = "ok"

\* Result::unwrap_or_default of env::var
unwrap_or_default(v) == IF v.st = "ok" THEN v.val ELSE <<>>

\* values of TERM
Terms ==
    {<<>>,
     <<"x", "t", "e", "r", "m">>,
     <<"x", "t", "e", "r", "m", "-", "2", "5", "6", "c", "o", "l", "o", "r">>,
     <<"v", "t", "e">>,
     <<"k", "i", "t", "t", "y">>,
     <<"i", "t", "e", "r", "m">>,
     <<"X", "T", "E", "R", "M">>,
     <<"d", "u", "m", "b">>,
     <<"s", "c", "r", "e", "e", "n", "-", "2", "5", "6", "c", "o", "l", "o", "r">>}

\* values of COLORTERM
ColorTerms ==
    {<<"t", "r", "u", "e", "c", "o", "l", "o", "r">>,
     <<"2", "4", "b", "i", "t">>,
     <<"y", "e", "s">>}

\* values of TERM_PROGRAM
TermPrograms == {<<"v", "s", "c", "o", "d", "e">>, <<"t", "m", "u", "x">>}

\* the environments of a process
Environments ==
    [WT_SESSION : {Unset, NotUnicode, Value(<<>>), Value(<<"1">>)},
     VSCODE_INJECTION : {Unset, Value(<<"1">>)},
     TERM_PROGRAM : {Unset} \cup {Value(t) : t \in TermPrograms},
     ConEmuPID : {Unset, Value(<<"7">>)},
     COLORTERM : {Unset} \cup {Value(t) : t \in ColorTerms},
     TERM : {Unset, NotUnicode} \cup {Value(t) : t \in Terms}]

\* an environment with none of the variables set
NoEnvironment ==
    [WT_SESSION |-> Unset, VSCODE_INJECTION |-> Unset, TERM_PROGRAM |-> Unset,
     ConEmuPID |-> Unset, COLORTERM |-> Unset, TERM |-> Unset]

\* the profile of a terminal host that supports everything
FullCaps ==
    [true_color |-> TRUE, hyperlinks |-> TRUE, unicode |-> TRUE, basic_ansi |-> TRUE]

\* detect: is_windows_terminal || is_vscode || is_conemu
is_full_host(e) ==
    \/ is_ok(e.WT_SESSION)
    \/ is_ok(e.VSCODE_INJECTION)
    \/ e.TERM_PROGRAM = Value(<<"v", "s", "c", "o", "d", "e">>)
    \/ is_ok(e.ConEmuPID)

\* detect: true_color
detect_true_color(colorterm, term, win) ==
    \/ colorterm = <<"t", "r", "u", "e", "c", "o", "l", "o", "r">>
    \/ colorterm = <<"2", "4", "b", "i", "t">>
    \/ Contains(term, <<"2", "5", "6", "c", "o", "l", "o", "r">>)
    \/ Contains(term, <<"t", "r", "u", "e", "c", "o", "l", "o", "r">>)
    \/ win

\* the mutant of detect_hyperlinks for C12: hyperlinks assumed on Windows
detect_hyperlinks_on_windows(term, win) ==
    \/ Contains(term, <<"x", "t", "e", "r", "m">>)
    \/ Contains(term, <<"v", "t", "e">>)
    \/ Contains(term, <<"k", "i", "t", "t", "y">>)
    \/ Contains(term, <<"i", "t", "e", "r", "m">>)
    \/ win

\* detect: hyperlinks
detect_hyperlinks(term, win) ==
    \/ Contains(term, <<"x", "t", "e", "r", "m">>)
    \/ Contains(term, <<"v", "t", "e">>)
    \/ Contains(term, <<"k", "i", "t", "t", "y">>)
    \/ Contains(term, <<"i", "t", "e", "r", "m">>)

\* the mutant of detect_unicode for C13: the platform not asked
detect_unicode_by_term(term, win) == term # <<>>

\* detect: unicode
detect_unicode(term, win) == term # <<>> \/ win

\* the mutant of detect_basic_ansi for C35: styling by the platform alone
detect_basic_ansi_by_platform(term, win) == win

\* detect: basic_ansi
detect_basic_ansi(term, win) == term # <<>> \/ win

\* detect, from the checks of COLORTERM and TERM on
detect_by_term(colorterm, term, win) ==
    [true_color |-> detect_true_color(colorterm, term, win),
     hyperlinks |-> detect_hyperlinks(term, win),
     unicode |-> detect_unicode(term, win),
     basic_ansi |-> detect_basic_ansi(term, win)]

\* the mutant of detect for C11: the terminal type asked before the host
detect_term_first(e, win) ==
    IF unwrap_or_default(e.TERM) # <<>>
    THEN detect_by_term(unwrap_or_default(e.COLORTERM), unwrap_or_default(e.TERM), win)
    ELSE IF is_full_host(e) THEN FullCaps
    ELSE detect_by_term(unwrap_or_default(e.COLORTERM), <<>>, win)

\* TerminalCaps::detect; win is cfg!(windows)
detect(e, win) ==
    IF is_full_host(e) THEN FullCaps
    ELSE detect_by_term(unwrap_or_default(e.COLORTERM), unwrap_or_default(e.TERM), win)

---------------------------------------------------------------------------
(* main.rs, parse_args: a function of the arguments of the process and of  *)
(* has_console.  An argument is a string; the result is Ok(opts), one of   *)
(* the three Err values, or the exit of the process after the usage text.  *)

\* struct Options, #[derive(Default)]
DefaultOptions ==
    [gui_mode |-> FALSE, terminal_mode |-> FALSE, html_full |-> FALSE,
     html_body |-> FALSE, plain_text |-> FALSE, file_path |-> <<>>]

\* the arguments of a command line
ArgStrings ==
    {<<"-", "h">>,
     <<"-", "-", "h", "e", "l", "p">>,
     <<"-", "-", "g", "u", "i">>,
     <<"-", "-", "t", "e", "r", "m">>,
     <<"-", "-", "t", "e", "r", "m", "i", "n", "a", "l">>,
     <<"-", "-", "h", "t", "m", "l">>,
     <<"-", "-", "b", "o", "d", "y">>,
     <<"-", "-", "t", "e", "x", "t">>,
     <<"-", "x">>,
     <<"a">>,
     <<"b">>}

\* `opts.html_full as u8 + opts.html_body as u8 + opts.plain_text as u8
\*  + opts.terminal_mode as u8`
cli_format_count(opts) ==
    (IF opts.html_full THEN 1 ELSE 0) + (IF opts.html_body THEN 1 ELSE 0)
        + (IF opts.plain_text THEN 1 ELSE 0) + (IF opts.terminal_mode THEN 1 ELSE 0)

\* the loop `for arg in args`, from the i-th argument on: the options after
\* the last argument, or the early return or exit of an arm
RECURSIVE parse_loop(_, _, _)
parse_loop(args, i, opts) ==
    IF i > Len(args) THEN [st |-> "parsed", opts |-> opts]
    ELSE CASE args[i] \in {<<"-", "h">>, <<"-", "-", "h", "e", "l", "p">>} ->
                    [st |-> "exit", opts |-> opts]
           [] args[i] = <<"-", "-", "g", "u", "i">> ->
                    parse_loop(args, i + 1, [opts EXCEPT !.gui_mode = TRUE])
           [] args[i] \in {<<"-", "-", "t", "e", "r", "m">>,
                           <<"-", "-", "t", "e", "r", "m", "i", "n", "a", "l">>} ->
                    parse_loop(args, i + 1, [opts EXCEPT !.terminal_mode = TRUE])
           [] args[i] = <<"-", "-", "h", "t", "m", "l">> ->
                    parse_loop(args, i + 1, [opts EXCEPT !.html_full = TRUE])
           [] args[i] = <<"-", "-", "b", "o", "d", "y">> ->
                    parse_loop(args, i + 1, [opts EXCEPT !.html_body = TRUE])
           [] args[i] = <<"-", "-", "t", "e", "x", "t">> ->
                    parse_loop(args, i + 1, [opts EXCEPT !.plain_text = TRUE])
           [] OTHER ->
                    IF StartsWith(args[i], <<"-">>)
                    THEN [st |-> "Err: Unknown option", opts |-> opts]
                    ELSE IF opts.file_path # <<>>
                    THEN [st |-> "Err: Multiple input files", opts |-> opts]
                    ELSE parse_loop(args, i + 1, [opts EXCEPT !.file_path = <<args[i]>>])

\* the default mode, chosen when neither --gui nor a format option was given
default_mode(opts, has_console) ==
    IF ~opts.gui_mode /\ cli_format_count(opts) = 0
    THEN (IF has_console
          THEN [opts EXCEPT !.terminal_mode = TRUE]
          ELSE [opts EXCEPT !.gui_mode = TRUE])
    ELSE opts

\* the mutant of parse_args for C28: the check of cli_format_count left out
parse_args_unvalidated(args, has_console) ==
    LET parsed == parse_loop(args, 1, DefaultOptions)
    IN  IF parsed.st # "parsed" THEN parsed
        ELSE [st |-> "Ok", opts |-> default_mode(parsed.opts, has_console)]

\* parse_args(has_console), args being env::args().skip(1)
parse_args(args, has_console) ==
    LET parsed == parse_loop(args, 1, DefaultOptions)
    IN  IF parsed.st # "parsed" THEN parsed
        ELSE IF cli_format_count(parsed.opts) > 1
        THEN [st |-> "Err: mutually exclusive", opts |-> parsed.opts]
        ELSE [st |-> "Ok", opts |-> default_mode(parsed.opts, has_console)]

\* a process whose command line is not looked at
NoCommandLine == [args |-> <<>>, has_console |-> FALSE, result |-> <<>>]

---------------------------------------------------------------------------
(* Event payloads the parser hands over *)

Texts == {<<"a">>, <<"a", "b", "c", "d">>}

Codes == {<<"x">>}

\* the texts of a code block: whole lines, the last with or without its
\* newline, blank lines among them (the parser hands over no carriage return)
CodeTexts == {<<"x", NL>>, <<"x", NL, "y">>, <<"x", NL, NL, "y">>}

\* link destinations, and the title of a link (which the renderer never reads)
Urls == {<<"u">>, <<"v", "w">>}

LinkTitles == {<<>>}

\* image destinations and titles
ImageUrls == {<<"u">>}

Titles == {<<>>, <<"t">>}

Levels == {1, 2, 3, 4}

\* CodeBlockKind: Indented, Fenced(lang)
CodeBlockKinds == {<<"Indented">>, <<"Fenced", <<>>>>, <<"Fenced", <<"r", "s">>>>}

\* Tag::List(Option<u64>)
ListStarts == {<<>>, <<1>>, <<9>>}

---------------------------------------------------------------------------
(* main.rs, the recent files of the GUI: the list RECENT_FILES of the      *)
(* process, the registry values File0..File9 under RecentFiles, and the    *)
(* files on disk.  A path is a number; a registry value is None (not set)  *)
(* or Some(path).                                                          *)

\* `for i in 0..10`, `files.truncate(10)`
RecentSlots == 10

Paths == 1 .. NPaths

\* the RecentFiles key with no value set (or no key at all)
EmptyRegistry == [i \in 0 .. RecentSlots - 1 |-> <<>>]

RECURSIVE load_from(_, _, _)
\* load_recent_files: the loop over File{i}, from i on
load_from(registry, disk, i) ==
    IF i >= RecentSlots THEN <<>>
    ELSE (IF registry[i] # <<>> /\ registry[i][1] \in disk
          THEN <<registry[i][1]>> ELSE <<>>)
         \o load_from(registry, disk, i + 1)

\* load_recent_files
load_recent_files(registry, disk) == load_from(registry, disk, 0)

\* save_recent_files: File{i} is set for i < files.len(), and not touched
\* for the other i
save_recent_files(registry, files) ==
    [i \in 0 .. RecentSlots - 1 |->
        IF i < Len(files) THEN <<files[i + 1]>> ELSE registry[i]]

\* Vec::retain(|f| f != file_path)
retain_other(files, file_path) == SelectSeq(files, LAMBDA f : f # file_path)

\* Vec::truncate
truncate(files, n) == IF Len(files) <= n THEN files ELSE SubSeq(files, 1, n)

\* add_to_recent_files: the list after the call
add_to_recent_files(files, file_path) ==
    truncate(<<file_path>> \o retain_other(files, file_path), RecentSlots)

\* a process that has no recent files
NoRecentFiles ==
    [files |-> <<>>, registry |-> EmptyRegistry, disk |-> {}, started |-> FALSE,
     op |-> <<>>]

---------------------------------------------------------------------------
(* viewer.rs, create_viewer: a host window is created and the function     *)
(* waits, in a message loop of its own, for the two callbacks of the       *)
(* WebView2 runtime.  `call` is the call that is waiting, if any: its      *)
(* window, the cells completed, error_result and controller_result the     *)
(* callbacks share with the loop, the callbacks still to come, and the     *)
(* time spent in the loop.                                                 *)

\* no call of create_viewer yet
NoViewer ==
    [next_hwnd |-> 1, windows |-> {}, CONTROLLERS |-> {}, call |-> <<>>,
     returned |-> <<>>]

\* init_webview2_sync, after the message loop, and the rest of create_viewer
after_loop(v, c) ==
    IF c.error
    THEN [v EXCEPT !.call = <<>>,
                   !.windows = @ \ {c.hwnd},
                   !.returned = <<[st |-> "Err", hwnd |-> c.hwnd]>>]
    ELSE [v EXCEPT !.call = <<>>,
                   !.CONTROLLERS = IF c.controller THEN @ \cup {c.hwnd} ELSE @,
                   !.returned = <<[st |-> "Ok", hwnd |-> c.hwnd]>>]

\* the test of `while !*completed.borrow()` after a pass of the loop
loop_test(v, c) ==
    IF c.completed THEN after_loop(v, c) ELSE [v EXCEPT !.call = <<c>>]

---------------------------------------------------------------------------
VARIABLES
    caps, output,
    in_heading, in_emphasis, in_strong, in_strikethrough, in_code_block,
    in_block_quote, in_list, list_index, pending_link, link_text,
    in_table, table_row, table_rows, in_table_head, current_cell,
    stack, nev, limit, phase, ev, recording, hist, plain,
    wellformed, options, env, windows, detected, calls, cli, recent, viewer

rvars ==
    <<caps, output,
      in_heading, in_emphasis, in_strong, in_strikethrough, in_code_block,
      in_block_quote, in_list, list_index, pending_link, link_text,
      in_table, table_row, table_rows, in_table_head, current_cell>>

\* the event source's configuration, the host of the process, its command
\* line, its recent files and its viewer windows
hostVars == <<wellformed, options, env, windows, detected, calls, cli, recent, viewer>>

vars == <<rvars, stack, nev, limit, phase, ev, recording, hist, plain, hostVars>>

---------------------------------------------------------------------------
(* The event source: Parser::new_ext(markdown, options), a balanced stream *)
(* (wellformed), or any sequence of events handed to process_event.        *)

\* Options::ENABLE_*
AllExtensions ==
    {"ENABLE_TABLES", "ENABLE_FOOTNOTES", "ENABLE_STRIKETHROUGH", "ENABLE_TASKLISTS"}

\* render_to_terminal: the options the parser is created with
TerminalOptions ==
    {"ENABLE_TABLES", "ENABLE_FOOTNOTES", "ENABLE_STRIKETHROUGH", "ENABLE_TASKLISTS"}

\* markdown_to_html: the options the parser is created with
HtmlOptions ==
    {"ENABLE_TABLES", "ENABLE_FOOTNOTES", "ENABLE_STRIKETHROUGH", "ENABLE_TASKLISTS"}

\* markdown_to_plain_text: Options::empty()
PlainOptions == {}

\* the extension a parser must have enabled to hand over events of this kind
ExtensionOf(kind) ==
    CASE kind \in {"Table", "TableHead", "TableRow", "TableCell"} -> {"ENABLE_TABLES"}
      [] kind = "Strikethrough" -> {"ENABLE_STRIKETHROUGH"}
      [] kind = "TaskListMarker" -> {"ENABLE_TASKLISTS"}
      [] OTHER -> {}

Top == IF stack = <<>> THEN "Doc" ELSE stack[Len(stack)]

BlockCtx == {"Doc", "BlockQuote", "Item"}

InlineCtx ==
    {"Paragraph", "Heading", "Item", "TableCell", "Emphasis", "Strong",
     "Strikethrough", "Link", "Image"}

InlineDone ==
    {"Text", "InlineCode", "EndEmphasis", "EndStrong", "EndStrikethrough",
     "EndLink", "EndImage"}

Event(k, a, b) == [k |-> k, a |-> a, b |-> b]

NoEvent == Event("None", <<>>, <<>>)

\* ev is the event handed over last; hist is the whole stream handed over
\* so far, kept only in the specifications that set recording
Handed(e) ==
    /\ ev' = e
    /\ hist' = IF recording THEN Append(hist, e) ELSE hist
    /\ UNCHANGED recording

\* the parser may open a tag of this kind here
CanStart(kind) ==
    /\ ExtensionOf(kind) \subseteq options
    /\ CASE kind \in {"Heading", "Paragraph", "CodeBlock", "BlockQuote", "List", "Table"}
               -> Top \in BlockCtx
         [] kind = "Item" -> Top = "List"
         [] kind \in {"Emphasis", "Strong", "Strikethrough", "Image"} -> Top \in InlineCtx
         [] kind = "Link" -> Top \in InlineCtx /\ "Link" \notin Range(stack)
         [] kind = "TableHead" -> Top = "Table" /\ ev.k = "StartTable"
         [] kind = "TableRow" -> Top = "Table" /\ ev.k \in {"EndTableHead", "EndTableRow"}
         [] kind = "TableCell" -> Top \in {"TableHead", "TableRow"}
         [] OTHER -> FALSE

\* the parser may close the open tag of this kind here
CanEnd(kind) ==
    /\ Top = kind
    /\ CASE kind = "Paragraph" -> ev.k # "StartParagraph"
         [] kind \in {"Emphasis", "Strong", "Strikethrough"} -> ev.k # "Start" \o kind
         [] kind = "List" -> ev.k = "EndItem"
         [] kind \in {"TableHead", "TableRow"} -> ev.k = "EndTableCell"
         [] kind = "Table" -> ev.k \in {"EndTableHead", "EndTableRow"}
         [] OTHER -> TRUE

\* the parser may hand over this leaf event here
CanLeaf(k) ==
    /\ ExtensionOf(k) \subseteq options
    /\ CASE k = "Text" -> Top \in InlineCtx \cup {"CodeBlock"}
         [] k \in {"InlineCode", "Other"} -> Top \in InlineCtx
         [] k \in {"SoftBreak", "HardBreak"} ->
               /\ Top \in InlineCtx
               /\ "Table" \notin Range(stack)
               /\ ev.k \in InlineDone
         [] k = "Rule" -> Top \in BlockCtx
         [] k = "TaskListMarker" -> Top = "Item" /\ ev.k = "StartItem"
         [] OTHER -> FALSE

\* the events the bound counts: of a balanced stream every Start and leaf
\* event but the two that only frame the cells of a table (every tag can
\* then be closed); of any other sequence every event
Counted(kind) == ~wellformed \/ kind \notin {"TableHead", "TableRow"}

\* the next event is Start(kind)
EmitStart(kind, a, b) ==
    /\ phase = "run"
    /\ Counted(kind) => nev < limit
    /\ wellformed => CanStart(kind)
    /\ stack' = IF wellformed THEN Append(stack, kind) ELSE stack
    /\ nev' = IF Counted(kind) THEN nev + 1 ELSE nev
    /\ Handed(Event("Start" \o kind, a, b))
    /\ UNCHANGED <<limit, phase, hostVars>>

\* the next event is End(kind)
EmitEnd(kind) ==
    /\ phase = "run"
    /\ wellformed => CanEnd(kind)
    /\ ~wellformed => nev < limit
    /\ stack' = IF wellformed THEN SubSeq(stack, 1, Len(stack) - 1) ELSE stack
    /\ nev' = IF wellformed THEN nev ELSE nev + 1
    /\ Handed(Event("End" \o kind, <<>>, <<>>))
    /\ UNCHANGED <<limit, phase, hostVars>>

\* the next event is a leaf event
EmitLeaf(k, a) ==
    /\ phase = "run"
    /\ nev < limit
    /\ wellformed => CanLeaf(k)
    /\ nev' = nev + 1
    /\ Handed(Event(k, a, <<>>))
    /\ UNCHANGED <<stack, limit, phase, hostVars>>

---------------------------------------------------------------------------
(* TerminalRenderer *)

\* the mutant of Ansi for C1: styling that does not ask basic_ansi
Ansi_always(s) == s

\* an escape sequence is written only `if self.caps.basic_ansi`
Ansi(s) == IF caps.basic_ansi THEN s ELSE <<>>

\* start_tag, Tag::Heading: the level-dependent color
HeadingColor(level) ==
    CASE level = 1 -> FG_MAGENTA
      [] level = 2 -> FG_BLUE
      [] level = 3 -> FG_CYAN
      [] OTHER -> FG_GREEN

\* start_tag, Tag::CodeBlock: the background and foreground of a code block
CodeBlockColors ==
    IF caps.true_color
    THEN bg_rgb(40, 44, 52) \o fg_rgb(171, 178, 191)
    ELSE BG_GRAY

\* inline_code: the background and foreground of a code span
InlineCodeColors ==
    IF caps.true_color
    THEN bg_rgb(40, 44, 52) \o fg_rgb(230, 192, 123)
    ELSE BG_GRAY \o FG_YELLOW

\* the mutant of write_blockquote_prefix for C20: one bar at any depth
write_blockquote_prefix_single ==
    IF in_block_quote > 0
    THEN Ansi(FG_GRAY)
            \o <<(IF caps.unicode THEN QUOTE_BAR ELSE "|"), " ">>
            \o Ansi(RESET)
    ELSE <<>>

\* what write_blockquote_prefix appends to output
write_blockquote_prefix ==
    IF in_block_quote > 0
    THEN Ansi(FG_GRAY)
            \o Repeat(<<(IF caps.unicode THEN QUOTE_BAR ELSE "|"), " ">>, in_block_quote)
            \o Ansi(RESET)
    ELSE <<>>

\* what restore_styles appends to output, given the three style flags
restore_styles(strong, emphasis, strikethrough) ==
    (IF strong THEN BOLD ELSE <<>>)
        \o (IF emphasis THEN ITALIC ELSE <<>>)
        \o (IF strikethrough THEN STRIKETHROUGH ELSE <<>>)

\* the mutant of EndStyleText for C32: the styles restored, the reset left out
EndStyleText_no_reset(strong, emphasis, strikethrough) ==
    Ansi(restore_styles(strong, emphasis, strikethrough))

\* end_tag, TagEnd::Emphasis | Strong | Strikethrough: what is appended
EndStyleText(strong, emphasis, strikethrough) ==
    Ansi(RESET \o restore_styles(strong, emphasis, strikethrough))

\* output.ends_with('\n') made true
EnsureNewline(out) == IF EndsWith(out, <<NL>>) THEN out ELSE Append(out, NL)

\* start_tag, Tag::Item: the bullet of an unordered item
BulletText == IF caps.unicode THEN <<" ", BULLET, " ">> ELSE <<" ", "*", " ">>

\* start_tag, Tag::Item: the number of an ordered item
NumberText(idx) == <<" ">> \o Decimal(idx) \o <<".", " ">>

\* start_tag, Tag::Image: what is appended
ImageText(url, title) ==
    Ansi(DIM)
        \o <<"[", "I", "m", "a", "g", "e", ":", " ">> \o url \o <<" ">>
        \o (IF title # <<>> THEN <<"\"">> \o title \o <<"\"", " ">> ELSE <<>>)
        \o <<"]">>
        \o Ansi(RESET)

\* the mutant of LinkText for C4: the fallback without the url
LinkText_without_url(url, text) ==
    IF caps.hyperlinks
    THEN hyperlink_start(url) \o Ansi(FG_BLUE \o UNDERLINE) \o text
            \o Ansi(RESET) \o HYPERLINK_END
    ELSE Ansi(FG_BLUE \o UNDERLINE) \o text \o Ansi(RESET)

\* end_tag, TagEnd::Link with a pending link: what is appended
LinkText(url, text) ==
    IF caps.hyperlinks
    THEN hyperlink_start(url)
            \o Ansi(FG_BLUE \o UNDERLINE)
            \o text
            \o Ansi(RESET)
            \o HYPERLINK_END
    ELSE Ansi(FG_BLUE \o UNDERLINE)
            \o text
            \o Ansi(RESET)
            \o Ansi(DIM)
            \o <<" ", "(">> \o url \o <<")">>
            \o Ansi(RESET)

\* text, in a code block: every line indented by two spaces
RECURSIVE IndentLines(_)
IndentLines(ls) ==
    IF ls = <<>> THEN <<>>
    ELSE <<" ", " ">> \o Head(ls) \o <<NL>> \o IndentLines(Tail(ls))

\* inline_code, outside a table: what is appended
InlineCodeText(code) ==
    Ansi(InlineCodeColors) \o <<" ">> \o code \o <<" ">> \o Ansi(RESET)

\* horizontal_rule: what is appended
RuleText ==
    <<NL>> \o Ansi(DIM)
        \o Repeat(<<(IF caps.unicode THEN HORIZONTAL_LINE ELSE "-")>>, 40)
        \o Ansi(RESET) \o <<NL, NL>>

\* the mutant of TaskMarkerText for C8: the marker of an unchecked item,
\* whatever the item is
TaskMarkerText_unchecked(checked) ==
    Ansi(DIM)
        \o (IF caps.unicode THEN <<CHECKBOX_UNCHECKED>> ELSE <<"[", " ", "]">>)
        \o <<" ">>
        \o Ansi(RESET)

\* task_list_marker: what is appended
TaskMarkerText(checked) ==
    Ansi(IF checked THEN FG_GREEN ELSE DIM)
        \o (IF caps.unicode
            THEN <<(IF checked THEN CHECKBOX_CHECKED ELSE CHECKBOX_UNCHECKED)>>
            ELSE (IF checked THEN <<"[", "x", "]">> ELSE <<"[", " ", "]">>))
        \o <<" ">>
        \o Ansi(RESET)

(* render_table *)

RECURSIVE MaxRowLen(_)
MaxRowLen(rows) ==
    IF rows = <<>> THEN 0 ELSE Max(Len(Head(rows)), MaxRowLen(Tail(rows)))

\* render_table: col_count
col_count(rows) == MaxRowLen(rows)

\* the longest cell of column i, in characters (0 without any)
RECURSIVE MaxCellLen(_, _)
MaxCellLen(rows, i) ==
    IF rows = <<>> THEN 0
    ELSE Max(IF i <= Len(Head(rows)) THEN Len(Head(rows)[i]) ELSE 0,
             MaxCellLen(Tail(rows), i))

\* render_table: the minimum width of a column
MinColWidth == 3

\* the mutant of col_widths for C7: the minimum width left out
col_widths_without_minimum(rows) ==
    [i \in 1..col_count(rows) |-> MaxCellLen(rows, i)]

\* render_table: col_widths
col_widths(rows) ==
    [i \in 1..col_count(rows) |-> Max(MaxCellLen(rows, i), MinColWidth)]

\* the glyphs (h, v, tl, tr, bl, br, cross, td, tu, tleft, tright)
BoxGlyphs ==
    IF caps.unicode
    THEN [h |-> TABLE_HORIZONTAL, v |-> TABLE_VERTICAL,
          tl |-> TABLE_TOP_LEFT, tr |-> TABLE_TOP_RIGHT,
          bl |-> TABLE_BOTTOM_LEFT, br |-> TABLE_BOTTOM_RIGHT,
          cross |-> TABLE_CROSS, td |-> TABLE_T_DOWN, tu |-> TABLE_T_UP,
          tleft |-> TABLE_T_RIGHT, tright |-> TABLE_T_LEFT]
    ELSE [h |-> "-", v |-> "|", tl |-> "+", tr |-> "+", bl |-> "+", br |-> "+",
          cross |-> "+", td |-> "+", tu |-> "+", tleft |-> "+", tright |-> "+"]

\* the columns of a border line, from column i on
RECURSIVE BorderCols(_, _, _, _)
BorderCols(widths, i, h, mid) ==
    IF i > Len(widths) THEN <<>>
    ELSE Repeat(<<h>>, widths[i] + 2)
            \o (IF i < Len(widths) THEN <<mid>> ELSE <<>>)
            \o BorderCols(widths, i + 1, h, mid)

\* the mutant of BorderLine for C6: the junctions between columns left out
BorderLine_without_junctions(widths, left, h, mid, right) ==
    <<left>> \o Repeat(<<h>>, 2) \o BorderCols(widths, Len(widths), h, mid) \o <<right>>

\* a border line: top border, header separator or bottom border
BorderLine(widths, left, h, mid, right) ==
    <<left>> \o BorderCols(widths, 1, h, mid) \o <<right>>

\* row.get(i).unwrap_or("")
CellAt(row, i) == IF i <= Len(row) THEN row[i] ELSE <<>>

\* the cells of a row line, from column i on
RECURSIVE RowCols(_, _, _, _, _)
RowCols(widths, row, i, header, v) ==
    IF i > Len(widths) THEN <<>>
    ELSE LET cell == CellAt(row, i)
             padding == saturating_sub(widths[i], Len(cell))
         IN  <<" ">>
                \o (IF header THEN Ansi(BOLD) ELSE <<>>)
                \o cell
                \o (IF header THEN Ansi(RESET) ELSE <<>>)
                \o Repeat(<<" ">>, padding + 1)
                \o <<v>>
                \o RowCols(widths, row, i + 1, header, v)

\* a row line
RowLine(widths, row, header, v) == <<v>> \o RowCols(widths, row, 1, header, v)

\* the row lines from row row_idx on, the separator after the first
RECURSIVE RowLines(_, _, _)
RowLines(rows, widths, row_idx) ==
    IF row_idx > Len(rows) THEN <<>>
    ELSE LET g == BoxGlyphs
         IN  RowLine(widths, rows[row_idx], row_idx = 1, g.v) \o <<NL>>
                \o (IF row_idx = 1
                    THEN BorderLine(widths, g.tleft, g.h, g.cross, g.tright) \o <<NL>>
                    ELSE <<>>)
                \o RowLines(rows, widths, row_idx + 1)

\* what render_table appends to output for the buffered rows
render_table(rows) ==
    IF rows = <<>> THEN <<>>
    ELSE LET g == BoxGlyphs
             widths == col_widths(rows)
         IN  BorderLine(widths, g.tl, g.h, g.td, g.tr) \o <<NL>>
                \o RowLines(rows, widths, 1)
                \o BorderLine(widths, g.bl, g.h, g.tu, g.br) \o <<NL, NL>>

\* finish: the loop that pops while the output ends with two newlines
RECURSIVE TrimBlankLines(_)
TrimBlankLines(out) ==
    IF EndsWith(out, <<NL, NL>>)
    THEN TrimBlankLines(SubSeq(out, 1, Len(out) - 1))
    ELSE out

\* the mutant of finish for C21: trailing spaces trimmed with the blank lines
RECURSIVE trim_end(_)
trim_end(out) ==
    IF out # <<>> /\ out[Len(out)] \in {" ", NL}
    THEN trim_end(SubSeq(out, 1, Len(out) - 1))
    ELSE out

finish_trim_end(out) == EnsureNewline(trim_end(out))

\* the mutant of finish for C2: the trimming loop left out
finish_untrimmed(out) == EnsureNewline(out)

\* finish: the returned string
finish(out) == EnsureNewline(TrimBlankLines(out))

\* TerminalRenderer::new
\* the mutant of new for C14: a renderer that takes over the output so far
new_keeping_output(c) ==
    [caps |-> c, output |-> output, in_heading |-> <<>>, in_emphasis |-> FALSE,
     in_strong |-> FALSE, in_strikethrough |-> FALSE, in_code_block |-> FALSE,
     in_block_quote |-> 0, in_list |-> FALSE, list_index |-> <<>>,
     pending_link |-> <<>>, link_text |-> <<>>, in_table |-> FALSE,
     table_row |-> <<>>, table_rows |-> <<>>, in_table_head |-> FALSE,
     current_cell |-> <<>>]

\* TerminalRenderer::new(caps): the value it returns
new(c) ==
    [caps |-> c, output |-> <<>>, in_heading |-> <<>>, in_emphasis |-> FALSE,
     in_strong |-> FALSE, in_strikethrough |-> FALSE, in_code_block |-> FALSE,
     in_block_quote |-> 0, in_list |-> FALSE, list_index |-> <<>>,
     pending_link |-> <<>>, link_text |-> <<>>, in_table |-> FALSE,
     table_row |-> <<>>, table_rows |-> <<>>, in_table_head |-> FALSE,
     current_cell |-> <<>>]

\* the state of the renderer after new(caps), for any caps
NewRenderer ==
    /\ output = <<>>
    /\ in_heading = <<>>
    /\ in_emphasis = FALSE
    /\ in_strong = FALSE
    /\ in_strikethrough = FALSE
    /\ in_code_block = FALSE
    /\ in_block_quote = 0
    /\ in_list = FALSE
    /\ list_index = <<>>
    /\ pending_link = <<>>
    /\ link_text = <<>>
    /\ in_table = FALSE
    /\ table_row = <<>>
    /\ table_rows = <<>>
    /\ in_table_head = FALSE
    /\ current_cell = <<>>

NewSource ==
    /\ stack = <<>>
    /\ nev = 0
    /\ phase = "run"
    /\ ev = NoEvent
    /\ hist = <<>>
    /\ plain = <<>>

\* a process that does not ask for the capabilities of its terminal
NoHost ==
    /\ env = NoEnvironment
    /\ windows = FALSE
    /\ detected = <<>>
    /\ calls = <<>>
    /\ cli = NoCommandLine
    /\ recent = NoRecentFiles
    /\ viewer = NoViewer

\* Parser::new_ext(markdown, opts) and the process it runs in
ParserOf(opts) ==
    /\ NewSource
    /\ NoHost
    /\ wellformed = TRUE
    /\ options = opts

Init ==
    /\ caps \in AllCaps
    /\ NewRenderer
    /\ ParserOf(TerminalOptions)
    /\ limit = MaxEvents
    /\ recording = FALSE

---------------------------------------------------------------------------
(* process_event: one action for each arm of start_tag, end_tag and the    *)
(* leaf handlers.  Frame groups: *)

styleVars == <<in_emphasis, in_strong, in_strikethrough>>

listVars == <<in_list, list_index>>

linkVars == <<pending_link, link_text>>

tableVars == <<in_table, table_row, table_rows, in_table_head, current_cell>>

StartHeading ==
    \E level \in Levels :
        /\ EmitStart("Heading", level, <<>>)
        /\ in_heading' = <<level>>
        /\ output' = output \o <<NL>> \o Ansi(BOLD \o HeadingColor(level))
        /\ UNCHANGED <<caps, styleVars, in_code_block, in_block_quote, listVars,
                       linkVars, tableVars, plain>>

StartParagraph ==
    /\ EmitStart("Paragraph", <<>>, <<>>)
    /\ output' = (IF output # <<>> /\ ~EndsWith(output, <<NL>>)
                  THEN Append(output, NL) ELSE output)
                    \o write_blockquote_prefix
    /\ UNCHANGED <<caps, in_heading, styleVars, in_code_block, in_block_quote,
                   listVars, linkVars, tableVars, plain>>

StartEmphasis ==
    /\ EmitStart("Emphasis", <<>>, <<>>)
    /\ in_emphasis' = TRUE
    /\ output' = output \o Ansi(ITALIC)
    /\ UNCHANGED <<caps, in_heading, in_strong, in_strikethrough, in_code_block,
                   in_block_quote, listVars, linkVars, tableVars, plain>>

StartStrong ==
    /\ EmitStart("Strong", <<>>, <<>>)
    /\ in_strong' = TRUE
    /\ output' = output \o Ansi(BOLD)
    /\ UNCHANGED <<caps, in_heading, in_emphasis, in_strikethrough, in_code_block,
                   in_block_quote, listVars, linkVars, tableVars, plain>>

StartStrikethrough ==
    /\ EmitStart("Strikethrough", <<>>, <<>>)
    /\ in_strikethrough' = TRUE
    /\ output' = output \o Ansi(STRIKETHROUGH)
    /\ UNCHANGED <<caps, in_heading, in_emphasis, in_strong, in_code_block,
                   in_block_quote, listVars, linkVars, tableVars, plain>>

StartCodeBlock ==
    \E kind \in CodeBlockKinds :
        /\ EmitStart("CodeBlock", kind, <<>>)
        /\ in_code_block' = TRUE
        /\ output' = output \o <<NL>> \o Ansi(CodeBlockColors)
                \o (IF kind[1] = "Fenced" /\ kind[2] # <<>>
                    THEN Ansi(DIM) \o <<" ", " ">> \o kind[2] \o <<NL>>
                            \o Ansi(RESET \o CodeBlockColors)
                    ELSE <<>>)
        /\ UNCHANGED <<caps, in_heading, styleVars, in_block_quote, listVars,
                       linkVars, tableVars, plain>>

StartBlockQuote ==
    /\ EmitStart("BlockQuote", <<>>, <<>>)
    /\ in_block_quote' = in_block_quote + 1
    /\ output' = EnsureNewline(output)
    /\ UNCHANGED <<caps, in_heading, styleVars, in_code_block, listVars,
                   linkVars, tableVars, plain>>

StartList ==
    \E start \in ListStarts :
        /\ EmitStart("List", start, <<>>)
        /\ in_list' = TRUE
        /\ list_index' = start
        /\ output' = EnsureNewline(output)
        /\ UNCHANGED <<caps, in_heading, styleVars, in_code_block, in_block_quote,
                       linkVars, tableVars, plain>>

\* the mutant of StartItem for C24: the counter not incremented
StartItem_same_number ==
    /\ EmitStart("Item", <<>>, <<>>)
    /\ output' = output \o write_blockquote_prefix
            \o (IF list_index # <<>> THEN NumberText(list_index[1]) ELSE BulletText)
    /\ UNCHANGED <<caps, in_heading, styleVars, in_code_block, in_block_quote,
                   listVars, linkVars, tableVars, plain>>

StartItem ==
    /\ EmitStart("Item", <<>>, <<>>)
    /\ output' = output \o write_blockquote_prefix
            \o (IF list_index # <<>> THEN NumberText(list_index[1]) ELSE BulletText)
    /\ list_index' = IF list_index # <<>> THEN <<list_index[1] + 1>> ELSE list_index
    /\ UNCHANGED <<caps, in_heading, styleVars, in_code_block, in_block_quote,
                   in_list, linkVars, tableVars, plain>>

StartLink ==
    \E url \in Urls, title \in LinkTitles :
        /\ EmitStart("Link", url, title)
        /\ pending_link' = <<[url |-> url, title |-> title]>>
        /\ link_text' = <<>>
        /\ UNCHANGED <<caps, output, in_heading, styleVars, in_code_block,
                       in_block_quote, listVars, tableVars, plain>>

StartImage ==
    \E url \in ImageUrls, title \in Titles :
        /\ EmitStart("Image", url, title)
        /\ output' = output \o ImageText(url, title)
        /\ UNCHANGED <<caps, in_heading, styleVars, in_code_block, in_block_quote,
                       listVars, linkVars, tableVars, plain>>

\* the mutant of StartTable for C34: table_rows.clear() left out
StartTable_keeping_rows ==
    /\ EmitStart("Table", <<>>, <<>>)
    /\ in_table' = TRUE
    /\ output' = EnsureNewline(output)
    /\ UNCHANGED <<caps, in_heading, styleVars, in_code_block, in_block_quote,
                   listVars, linkVars, table_row, table_rows, in_table_head,
                   current_cell, plain>>

StartTable ==
    /\ EmitStart("Table", <<>>, <<>>)
    /\ in_table' = TRUE
    /\ table_rows' = <<>>
    /\ output' = EnsureNewline(output)
    /\ UNCHANGED <<caps, in_heading, styleVars, in_code_block, in_block_quote,
                   listVars, linkVars, table_row, in_table_head, current_cell, plain>>

StartTableHead ==
    /\ EmitStart("TableHead", <<>>, <<>>)
    /\ in_table_head' = TRUE
    /\ table_row' = <<>>
    /\ UNCHANGED <<caps, output, in_heading, styleVars, in_code_block,
                   in_block_quote, listVars, linkVars, in_table, table_rows,
                   current_cell, plain>>

StartTableRow ==
    /\ EmitStart("TableRow", <<>>, <<>>)
    /\ table_row' = <<>>
    /\ UNCHANGED <<caps, output, in_heading, styleVars, in_code_block,
                   in_block_quote, listVars, linkVars, in_table, table_rows,
                   in_table_head, current_cell, plain>>

StartTableCell ==
    /\ EmitStart("TableCell", <<>>, <<>>)
    /\ current_cell' = <<>>
    /\ UNCHANGED <<caps, output, in_heading, styleVars, in_code_block,
                   in_block_quote, listVars, linkVars, in_table, table_row,
                   table_rows, in_table_head, plain>>

EndHeading ==
    /\ EmitEnd("Heading")
    /\ output' = output \o Ansi(RESET) \o <<NL, NL>>
    /\ in_heading' = <<>>
    /\ UNCHANGED <<caps, styleVars, in_code_block, in_block_quote, listVars,
                   linkVars, tableVars, plain>>

EndParagraph ==
    /\ EmitEnd("Paragraph")
    /\ output' = output \o <<NL, NL>>
    /\ UNCHANGED <<caps, in_heading, styleVars, in_code_block, in_block_quote,
                   listVars, linkVars, tableVars, plain>>

EndEmphasis ==
    /\ EmitEnd("Emphasis")
    /\ in_emphasis' = FALSE
    /\ output' = output \o EndStyleText(in_strong, FALSE, in_strikethrough)
    /\ UNCHANGED <<caps, in_heading, in_strong, in_strikethrough, in_code_block,
                   in_block_quote, listVars, linkVars, tableVars, plain>>

EndStrong ==
    /\ EmitEnd("Strong")
    /\ in_strong' = FALSE
    /\ output' = output \o EndStyleText(FALSE, in_emphasis, in_strikethrough)
    /\ UNCHANGED <<caps, in_heading, in_emphasis, in_strikethrough, in_code_block,
                   in_block_quote, listVars, linkVars, tableVars, plain>>

EndStrikethrough ==
    /\ EmitEnd("Strikethrough")
    /\ in_strikethrough' = FALSE
    /\ output' = output \o EndStyleText(in_strong, in_emphasis, FALSE)
    /\ UNCHANGED <<caps, in_heading, in_emphasis, in_strong, in_code_block,
                   in_block_quote, listVars, linkVars, tableVars, plain>>

EndCodeBlock ==
    /\ EmitEnd("CodeBlock")
    /\ in_code_block' = FALSE
    /\ output' = output \o Ansi(RESET) \o <<NL>>
    /\ UNCHANGED <<caps, in_heading, styleVars, in_block_quote, listVars,
                   linkVars, tableVars, plain>>

EndBlockQuote ==
    /\ EmitEnd("BlockQuote")
    /\ in_block_quote' = saturating_sub(in_block_quote, 1)
    /\ UNCHANGED <<caps, output, in_heading, styleVars, in_code_block, listVars,
                   linkVars, tableVars, plain>>

EndList ==
    /\ EmitEnd("List")
    /\ in_list' = FALSE
    /\ list_index' = <<>>
    /\ UNCHANGED <<caps, output, in_heading, styleVars, in_code_block,
                   in_block_quote, linkVars, tableVars, plain>>

EndItem ==
    /\ EmitEnd("Item")
    /\ output' = EnsureNewline(output)
    /\ UNCHANGED <<caps, in_heading, styleVars, in_code_block, in_block_quote,
                   listVars, linkVars, tableVars, plain>>

\* the mutant of EndLink for C22: link_text.clear() left out
EndLink_keeping_text ==
    /\ EmitEnd("Link")
    /\ output' = IF pending_link # <<>>
                 THEN output \o LinkText(pending_link[1].url, link_text)
                 ELSE output
    /\ pending_link' = <<>>
    /\ UNCHANGED <<caps, in_heading, styleVars, in_code_block, in_block_quote,
                   listVars, link_text, tableVars, plain>>

EndLink ==
    /\ EmitEnd("Link")
    /\ output' = IF pending_link # <<>>
                 THEN output \o LinkText(pending_link[1].url, link_text)
                 ELSE output
    /\ pending_link' = <<>>
    /\ link_text' = <<>>
    /\ UNCHANGED <<caps, in_heading, styleVars, in_code_block, in_block_quote,
                   listVars, tableVars, plain>>

\* end_tag, `_ => {}`
EndImage ==
    /\ EmitEnd("Image")
    /\ UNCHANGED <<rvars, plain>>

\* the mutant of EndTable for C39: in_table left set
EndTable_still_in_table ==
    /\ EmitEnd("Table")
    /\ output' = output \o render_table(table_rows)
    /\ UNCHANGED <<caps, in_heading, styleVars, in_code_block, in_block_quote,
                   listVars, linkVars, in_table, table_row, table_rows,
                   in_table_head, current_cell, plain>>

EndTable ==
    /\ EmitEnd("Table")
    /\ output' = output \o render_table(table_rows)
    /\ in_table' = FALSE
    /\ UNCHANGED <<caps, in_heading, styleVars, in_code_block, in_block_quote,
                   listVars, linkVars, table_row, table_rows, in_table_head,
                   current_cell, plain>>

\* the mutant of EndTableHead for C23: the header row not pushed
EndTableHead_unpushed ==
    /\ EmitEnd("TableHead")
    /\ in_table_head' = FALSE
    /\ UNCHANGED <<caps, output, in_heading, styleVars, in_code_block,
                   in_block_quote, listVars, linkVars, in_table, table_row,
                   table_rows, current_cell, plain>>

EndTableHead ==
    /\ EmitEnd("TableHead")
    /\ in_table_head' = FALSE
    /\ table_rows' = Append(table_rows, table_row)
    /\ UNCHANGED <<caps, output, in_heading, styleVars, in_code_block,
                   in_block_quote, listVars, linkVars, in_table, table_row,
                   current_cell, plain>>

EndTableRow ==
    /\ EmitEnd("TableRow")
    /\ table_rows' = IF ~in_table_head THEN Append(table_rows, table_row)
                     ELSE table_rows
    /\ UNCHANGED <<caps, output, in_heading, styleVars, in_code_block,
                   in_block_quote, listVars, linkVars, in_table, table_row,
                   in_table_head, current_cell, plain>>

EndTableCell ==
    /\ EmitEnd("TableCell")
    /\ table_row' = Append(table_row, current_cell)
    /\ UNCHANGED <<caps, output, in_heading, styleVars, in_code_block,
                   in_block_quote, listVars, linkVars, in_table, table_rows,
                   in_table_head, current_cell, plain>>

\* the Text payloads of the parser: whole lines inside a code block
TextPayloads == IF Top = "CodeBlock" THEN CodeTexts ELSE Texts

\* the mutant of Text for C19: the table asked before the pending link
Text_cell_first ==
    \E text \in TextPayloads :
        /\ EmitLeaf("Text", text)
        /\ IF in_table
           THEN /\ current_cell' = current_cell \o text
                /\ UNCHANGED <<output, link_text>>
           ELSE IF pending_link # <<>>
           THEN /\ link_text' = link_text \o text
                /\ UNCHANGED <<output, current_cell>>
           ELSE /\ output' = IF in_code_block
                             THEN output \o IndentLines(Lines(text))
                             ELSE output \o text
                /\ UNCHANGED <<link_text, current_cell>>
        /\ UNCHANGED <<caps, in_heading, styleVars, in_code_block, in_block_quote,
                       listVars, pending_link, in_table, table_row, table_rows,
                       in_table_head, plain>>

Text ==
    \E text \in TextPayloads :
        /\ EmitLeaf("Text", text)
        /\ IF pending_link # <<>>
           THEN /\ link_text' = link_text \o text
                /\ UNCHANGED <<output, current_cell>>
           ELSE IF in_table
           THEN /\ current_cell' = current_cell \o text
                /\ UNCHANGED <<output, link_text>>
           ELSE /\ output' = IF in_code_block
                             THEN output \o IndentLines(Lines(text))
                             ELSE output \o text
                /\ UNCHANGED <<link_text, current_cell>>
        /\ UNCHANGED <<caps, in_heading, styleVars, in_code_block, in_block_quote,
                       listVars, pending_link, in_table, table_row, table_rows,
                       in_table_head, plain>>

InlineCode ==
    \E code \in Codes :
        /\ EmitLeaf("InlineCode", code)
        /\ IF in_table
           THEN /\ current_cell' = current_cell \o <<BACKTICK>> \o code \o <<BACKTICK>>
                /\ UNCHANGED output
           ELSE /\ output' = output \o InlineCodeText(code)
                /\ UNCHANGED current_cell
        /\ UNCHANGED <<caps, in_heading, styleVars, in_code_block, in_block_quote,
                       listVars, linkVars, in_table, table_row, table_rows,
                       in_table_head, plain>>

\* the mutant of SoftBreak for C25: the space written to output, whatever
\* buffer is active
SoftBreak_to_output ==
    /\ EmitLeaf("SoftBreak", <<>>)
    /\ output' = Append(output, " ")
    /\ UNCHANGED <<caps, in_heading, styleVars, in_code_block, in_block_quote,
                   listVars, linkVars, tableVars, plain>>

SoftBreak ==
    /\ EmitLeaf("SoftBreak", <<>>)
    /\ IF pending_link # <<>>
       THEN /\ link_text' = Append(link_text, " ")
            /\ UNCHANGED <<output, current_cell>>
       ELSE IF in_table
       THEN /\ current_cell' = Append(current_cell, " ")
            /\ UNCHANGED <<output, link_text>>
       ELSE /\ output' = Append(output, " ")
            /\ UNCHANGED <<link_text, current_cell>>
    /\ UNCHANGED <<caps, in_heading, styleVars, in_code_block, in_block_quote,
                   listVars, pending_link, in_table, table_row, table_rows,
                   in_table_head, plain>>

HardBreak ==
    /\ EmitLeaf("HardBreak", <<>>)
    /\ output' = output \o <<NL>> \o write_blockquote_prefix
    /\ UNCHANGED <<caps, in_heading, styleVars, in_code_block, in_block_quote,
                   listVars, linkVars, tableVars, plain>>

Rule ==
    /\ EmitLeaf("Rule", <<>>)
    /\ output' = output \o RuleText
    /\ UNCHANGED <<caps, in_heading, styleVars, in_code_block, in_block_quote,
                   listVars, linkVars, tableVars, plain>>

TaskListMarker ==
    \E checked \in BOOLEAN :
        /\ EmitLeaf("TaskListMarker", checked)
        /\ output' = output \o TaskMarkerText(checked)
        /\ UNCHANGED <<caps, in_heading, styleVars, in_code_block, in_block_quote,
                       listVars, linkVars, tableVars, plain>>

\* process_event, `_ => {}`: Html, InlineHtml, FootnoteReference, ...
OtherEvent ==
    /\ EmitLeaf("Other", <<>>)
    /\ UNCHANGED <<rvars, plain>>

\* render_to_terminal: the parser is exhausted; renderer.finish()
Finish ==
    /\ phase = "run"
    /\ stack = <<>>
    /\ phase' = "done"
    /\ output' = finish(output)
    /\ UNCHANGED <<caps, in_heading, styleVars, in_code_block, in_block_quote,
                   listVars, linkVars, tableVars, stack, nev, limit, ev, recording,
                   hist, plain, hostVars>>

StyleEvents ==
    \/ StartEmphasis
    \/ StartStrong
    \/ StartStrikethrough
    \/ EndEmphasis
    \/ EndStrong
    \/ EndStrikethrough

LinkEvents ==
    \/ StartLink
    \/ EndLink

TableEvents ==
    \/ StartTable
    \/ StartTableHead
    \/ StartTableRow
    \/ StartTableCell
    \/ EndTableCell
    \/ EndTableRow
    \/ EndTableHead
    \/ EndTable

Next ==
    \/ StartHeading
    \/ StartParagraph
    \/ StartCodeBlock
    \/ StartBlockQuote
    \/ StartList
    \/ StartItem
    \/ StartImage
    \/ EndHeading
    \/ EndParagraph
    \/ EndCodeBlock
    \/ EndBlockQuote
    \/ EndList
    \/ EndItem
    \/ EndImage
    \/ StyleEvents
    \/ LinkEvents
    \/ TableEvents
    \/ Text
    \/ InlineCode
    \/ SoftBreak
    \/ HardBreak
    \/ Rule
    \/ TaskListMarker
    \/ OtherEvent
    \/ Finish

\* any document of at most MaxEvents Start and leaf events, any profile
Spec == Init /\ [][Next]_vars

---------------------------------------------------------------------------
(* markdown_to_plain_text: one action for each arm of the match over the   *)
(* events of Parser::new_ext(markdown, Options::empty()), which hands over *)
(* no Strikethrough, Table or TaskListMarker event.  The renderer is not   *)
(* part of this program and keeps its state.                               *)

\* char::is_whitespace, of the characters of the model
IsWhitespace(c) == c \in {" ", NL, "\t", "\r"}

\* str::trim
trim(s) ==
    LET keep == {i \in DOMAIN s : ~IsWhitespace(s[i])}
    IN  IF keep = {} THEN <<>> ELSE SubSeq(s, SetMin(keep), SetMax(keep))

\* the mutant of PlainHeadingStart for C9: the heading keeps a marker
PlainHeadingStart_marker == <<"#", " ">>

\* Event::Start(Tag::Heading { .. }) => {}
PlainHeadingStart == <<>>

\* Event::End(TagEnd::Heading(_)) and Event::End(TagEnd::Paragraph)
PlainBlockEnd == <<NL, NL>>

\* Event::Start(Tag::CodeBlock(_)) and Event::End(TagEnd::CodeBlock)
PlainFenceStart == <<NL, BACKTICK, BACKTICK, BACKTICK, NL>>

PlainFenceEnd == <<BACKTICK, BACKTICK, BACKTICK, NL, NL>>

\* Event::Start(Tag::Item)
PlainItemPrefix == <<" ", " ", "-", " ">>

\* Event::Start(Tag::BlockQuote(_))
PlainQuotePrefix == <<">", " ">>

PlainText ==
    \E text \in TextPayloads :
        /\ EmitLeaf("Text", text)
        /\ plain' = plain \o text
        /\ UNCHANGED rvars

PlainCode ==
    \E code \in Codes :
        /\ EmitLeaf("InlineCode", code)
        /\ plain' = plain \o <<BACKTICK>> \o code \o <<BACKTICK>>
        /\ UNCHANGED rvars

PlainBreak ==
    \E k \in {"SoftBreak", "HardBreak"} :
        /\ EmitLeaf(k, <<>>)
        /\ plain' = Append(plain, NL)
        /\ UNCHANGED rvars

PlainStartParagraph ==
    /\ EmitStart("Paragraph", <<>>, <<>>)
    /\ UNCHANGED <<rvars, plain>>

PlainEndParagraph ==
    /\ EmitEnd("Paragraph")
    /\ plain' = plain \o PlainBlockEnd
    /\ UNCHANGED rvars

PlainStartHeading ==
    \E level \in Levels :
        /\ EmitStart("Heading", level, <<>>)
        /\ plain' = plain \o PlainHeadingStart
        /\ UNCHANGED rvars

PlainEndHeading ==
    /\ EmitEnd("Heading")
    /\ plain' = plain \o PlainBlockEnd
    /\ UNCHANGED rvars

PlainStartCodeBlock ==
    \E kind \in CodeBlockKinds :
        /\ EmitStart("CodeBlock", kind, <<>>)
        /\ plain' = plain \o PlainFenceStart
        /\ UNCHANGED rvars

PlainEndCodeBlock ==
    /\ EmitEnd("CodeBlock")
    /\ plain' = plain \o PlainFenceEnd
    /\ UNCHANGED rvars

PlainStartList ==
    \E start \in ListStarts :
        /\ EmitStart("List", start, <<>>)
        /\ UNCHANGED <<rvars, plain>>

PlainEndList ==
    /\ EmitEnd("List")
    /\ plain' = Append(plain, NL)
    /\ UNCHANGED rvars

PlainStartItem ==
    /\ EmitStart("Item", <<>>, <<>>)
    /\ plain' = plain \o PlainItemPrefix
    /\ UNCHANGED rvars

PlainEndItem ==
    /\ EmitEnd("Item")
    /\ plain' = Append(plain, NL)
    /\ UNCHANGED rvars

PlainStartBlockQuote ==
    /\ EmitStart("BlockQuote", <<>>, <<>>)
    /\ plain' = plain \o PlainQuotePrefix
    /\ UNCHANGED rvars

PlainEndBlockQuote ==
    /\ EmitEnd("BlockQuote")
    /\ plain' = Append(plain, NL)
    /\ UNCHANGED rvars

\* `_ => {}`: the tags and leaves the converter has no arm for
PlainOtherStart ==
    \E kind \in {"Emphasis", "Strong"} :
        /\ EmitStart(kind, <<>>, <<>>)
        /\ UNCHANGED <<rvars, plain>>

PlainOtherEnd ==
    \E kind \in {"Emphasis", "Strong"} :
        /\ EmitEnd(kind)
        /\ UNCHANGED <<rvars, plain>>

PlainOtherLeaf ==
    \E k \in {"Rule", "Other"} :
        /\ EmitLeaf(k, <<>>)
        /\ UNCHANGED <<rvars, plain>>

\* the parser is exhausted: output.trim().to_string()
PlainFinish ==
    /\ phase = "run"
    /\ stack = <<>>
    /\ phase' = "done"
    /\ plain' = trim(plain)
    /\ UNCHANGED <<rvars, stack, nev, limit, ev, recording, hist, hostVars>>

InitPlain ==
    /\ caps = basic
    /\ NewRenderer
    /\ ParserOf(PlainOptions)
    /\ limit = MaxPlainEvents
    /\ recording = TRUE

NextPlain ==
    \/ PlainText
    \/ PlainCode
    \/ PlainBreak
    \/ PlainStartParagraph
    \/ PlainEndParagraph
    \/ PlainStartHeading
    \/ PlainEndHeading
    \/ PlainStartCodeBlock
    \/ PlainEndCodeBlock
    \/ PlainStartList
    \/ PlainEndList
    \/ PlainStartItem
    \/ PlainEndItem
    \/ PlainStartBlockQuote
    \/ PlainEndBlockQuote
    \/ PlainOtherStart
    \/ PlainOtherEnd
    \/ PlainOtherLeaf
    \/ PlainFinish

\* markdown_to_plain_text over every document of the bound
SpecPlain == InitPlain /\ [][NextPlain]_vars

---------------------------------------------------------------------------
(* Reading a rendered string *)

\* the non-ASCII characters of mod unicode
UnicodeGlyphs ==
    {BULLET, CHECKBOX_UNCHECKED, CHECKBOX_CHECKED, QUOTE_BAR, HORIZONTAL_LINE,
     TABLE_TOP_LEFT, TABLE_TOP_RIGHT, TABLE_BOTTOM_LEFT, TABLE_BOTTOM_RIGHT,
     TABLE_HORIZONTAL, TABLE_VERTICAL, TABLE_CROSS, TABLE_T_DOWN, TABLE_T_UP,
     TABLE_T_RIGHT, TABLE_T_LEFT}

\* the position of the "m" that ends the SGR sequence starting at i
SgrEnd(s, i) == Find(s, "m", i + 2)

RECURSIVE StripSgrFrom(_, _)
StripSgrFrom(s, i) ==
    IF i > Len(s) THEN <<>>
    ELSE IF i < Len(s) /\ s[i] = ESC /\ s[i + 1] = "["
    THEN StripSgrFrom(s, SgrEnd(s, i) + 1)
    ELSE <<s[i]>> \o StripSgrFrom(s, i + 1)

\* s without its SGR sequences ESC [ ... m: the characters a terminal shows
\* (an OSC sequence, ESC ] ..., is kept)
StripSgr(s) == StripSgrFrom(s, 1)

\* what a step appended to the output
Appended == SubSeq(output', Len(output) + 1, Len(output'))

---------------------------------------------------------------------------
C2_OneTrailingNewline ==
    phase = "done" =>
        /\ EndsWith(output, <<NL>>)
        /\ ~EndsWith(output, <<NL, NL>>)

\* finished after a paragraph, which left two newlines at the end
C2_Witness ==
    /\ phase = "done"
    /\ ev.k = "EndParagraph"
    /\ Len(output) > 1

---------------------------------------------------------------------------
(* Documents of one kind of content, deeper than those of Spec *)

InitStyle ==
    /\ caps \in AllCaps
    /\ NewRenderer
    /\ ParserOf(TerminalOptions)
    /\ limit = MaxStyleEvents
    /\ recording = FALSE

NextStyle ==
    \/ StartParagraph
    \/ EndParagraph
    \/ StyleEvents
    \/ Text
    \/ Finish

\* paragraphs of text in nested Emphasis, Strong and Strikethrough spans
SpecStyle == InitStyle /\ [][NextStyle]_vars

StyleKinds == {"Emphasis", "Strong", "Strikethrough"}

\* the escape that turns a style on
StyleEscape(kind) ==
    CASE kind = "Strong" -> BOLD
      [] kind = "Emphasis" -> ITALIC
      [] kind = "Strikethrough" -> STRIKETHROUGH

\* the styles of the spans that are open
OpenStyles(stk) == {k \in StyleKinds : k \in Range(stk)}

\* this step is the End event of a style span
EndsStyleSpan ==
    /\ Top \in StyleKinds
    /\ Len(stack') = Len(stack) - 1

(* C3: with basic_ansi, the end of a Strong, Emphasis or Strikethrough     *)
(* span appends a reset immediately followed by the escape of every style  *)
(* whose span is still open, and by no escape when none is open.           *)
C3_OpenStylesRestored ==
    [][(caps.basic_ansi /\ EndsStyleSpan) =>
            LET rest == SubSeq(Appended, Len(RESET) + 1, Len(Appended))
            IN  /\ StartsWith(Appended, RESET)
                /\ \A k \in StyleKinds :
                        k \in OpenStyles(stack') <=> Contains(rest, StyleEscape(k))
                /\ Len(rest) = 4 * Cardinality(OpenStyles(stack'))]_vars

InitLink ==
    /\ caps \in AllCaps
    /\ NewRenderer
    /\ ParserOf(TerminalOptions)
    /\ limit = MaxLinkEvents
    /\ recording = FALSE

NextLink ==
    \/ StartParagraph
    \/ EndParagraph
    \/ LinkEvents
    \/ Text
    \/ SoftBreak
    \/ Finish

\* paragraphs of text and links
SpecLink == InitLink /\ [][NextLink]_vars

\* this step is the End event of a link that is pending
EndsPendingLink ==
    /\ Top = "Link"
    /\ Len(stack') = Len(stack) - 1
    /\ pending_link # <<>>

(* C4: without hyperlinks, End Link appends the buffered link text (blue   *)
(* and underlined when basic_ansi) followed by the literal " (url)", and   *)
(* no OSC-8 sequence.                                                      *)
C4_LinkFallback ==
    [][(~caps.hyperlinks /\ EndsPendingLink) =>
            LET url == pending_link[1].url
            IN  /\ StripSgr(Appended) = link_text \o <<" ", "(">> \o url \o <<")">>
                /\ ~Contains(Appended, <<ESC, "]">>)
                /\ IF caps.basic_ansi
                   THEN StartsWith(Appended,
                            FG_BLUE \o UNDERLINE \o link_text \o RESET)
                   ELSE ESC \notin Range(Appended)]_vars

\* a styled link was rendered in the fallback form
C4_Witness ==
    /\ ev.k = "EndLink"
    /\ ~caps.hyperlinks
    /\ caps.basic_ansi
    /\ Contains(output, UNDERLINE \o <<"a">> \o RESET \o DIM
                            \o <<" ", "(", "v", "w", ")">>)

(* C5 as stated: with hyperlinks, for every value of the other flags, End  *)
(* Link appends the OSC-8 start sequence of the url immediately followed   *)
(* by the link text, then the OSC-8 end sequence, and no literal " (url)". *)
C5_TextRightAfterStart ==
    [][(caps.hyperlinks /\ EndsPendingLink) =>
            LET url == pending_link[1].url
            IN  /\ StartsWith(Appended,
                        <<ESC, "]", "8", ";", ";">> \o url \o <<ESC, "\\">>
                            \o link_text)
                /\ EndsWith(Appended, <<ESC, "]", "8", ";", ";", ESC, "\\">>)
                /\ ~Contains(Appended, <<" ", "(">> \o url \o <<")">>)]_vars

(* C5 as amended: with hyperlinks, End Link appends the OSC-8 start        *)
(* sequence of the url, the link text and the OSC-8 end sequence, and no   *)
(* literal " (url)"; the text follows the start sequence immediately only  *)
(* without basic_ansi: with basic_ansi the blue and underline escapes      *)
(* stand between the start sequence and the text, and a reset between the  *)
(* text and the end sequence.                                              *)
C5_HyperlinkWrapsText ==
    [][(caps.hyperlinks /\ EndsPendingLink) =>
            LET start == <<ESC, "]", "8", ";", ";">> \o pending_link[1].url
                            \o <<ESC, "\\">>
                stop == <<ESC, "]", "8", ";", ";", ESC, "\\">>
            IN  Appended =
                    IF caps.basic_ansi
                    THEN start \o FG_BLUE \o UNDERLINE \o link_text \o RESET \o stop
                    ELSE start \o link_text \o stop]_vars

\* a styled link was rendered as an OSC-8 hyperlink
C5_Witness ==
    /\ ev.k = "EndLink"
    /\ caps.hyperlinks
    /\ caps.basic_ansi
    /\ Contains(output, <<"u", ESC, "\\">> \o FG_BLUE \o UNDERLINE \o <<"a">>
                            \o RESET \o <<ESC, "]", "8", ";", ";", ESC, "\\">>)

InitTable ==
    /\ caps \in AllCaps
    /\ NewRenderer
    /\ ParserOf(TerminalOptions)
    /\ limit = MaxTableEvents
    /\ recording = FALSE

NextTable ==
    \/ TableEvents
    \/ Text
    \/ InlineCode
    \/ Finish

\* tables: a header and body rows of any number of cells each, a cell of
\* any number of Text and Code events
SpecTable == InitTable /\ [][NextTable]_vars

\* this step is the End event of a table with buffered rows
EndsTable ==
    /\ Top = "Table"
    /\ Len(stack') = Len(stack) - 1
    /\ table_rows # <<>>

\* the line is a row of cells: it starts with the vertical bar
IsRowLine(line) ==
    /\ line # <<>>
    /\ line[1] = (IF caps.unicode THEN "U+2502" ELSE "|")

\* the lines render_table emitted are top border, header row, separator,
\* body rows, bottom border and the blank line after the table, the
\* separator once and right after the header row
TableLinesInOrder(ls, n) ==
    /\ Len(ls) = n + 4
    /\ ls[n + 4] = <<>>
    /\ \A i \in 1..(n + 3) : IsRowLine(ls[i]) <=> (i = 2 \/ (4 <= i /\ i <= n + 2))
    /\ \A i \in 1..(n + 3) : ~IsRowLine(ls[i]) => ls[i] # <<>>
    /\ caps.unicode => \A i \in 1..(n + 3) : (ls[i][1] = "U+251C") <=> (i = 3)

(* C6 as stated: for every buffered table and every profile, all lines     *)
(* render_table emits have the same number of characters, and the header   *)
(* separator is emitted once, right after the first row.                   *)
C6_SameCharacterCount ==
    [][EndsTable =>
            \A ls \in {Lines(Appended)} : \A n \in {Len(table_rows)} :
                /\ TableLinesInOrder(ls, n)
                /\ \A i \in 1..(n + 3) : Len(ls[i]) = Len(ls[1])]_vars

(* C6 as amended: for every buffered table and every profile, all lines    *)
(* render_table emits have the same displayed width, the escape sequences  *)
(* not counted (with basic_ansi the header row holds a bold and a reset    *)
(* escape in every column, 8 characters the other lines do not have), and  *)
(* the header separator is emitted once, right after the first row.        *)
C6_SameDisplayWidth ==
    [][EndsTable =>
            \A ls \in {Lines(Appended)} : \A n \in {Len(table_rows)} :
                /\ TableLinesInOrder(ls, n)
                /\ \A w \in {Len(StripSgr(ls[1]))} :
                        \A i \in 1..(n + 3) : Len(StripSgr(ls[i])) = w
                /\ ~caps.basic_ansi =>
                        \A i \in 1..(n + 3) : Len(ls[i]) = Len(ls[1])
                /\ caps.basic_ansi =>
                        Len(ls[2]) = Len(ls[1]) + 8 * Len(col_widths(table_rows))]_vars

\* a table with rows of unequal length was rendered with a bold header
C6_Witness ==
    /\ ev.k = "EndTable"
    /\ caps.basic_ansi
    /\ Len(table_rows) >= 2
    /\ Len(table_rows[1]) # Len(table_rows[2])
    /\ Contains(output, BOLD \o <<"a">> \o RESET)

\* the row line the claim describes: every column of the table, a missing
\* cell as the empty string, each cell padded to the width of its column
RECURSIVE ExpectedCells(_, _, _, _)
ExpectedCells(row, i, W, v) ==
    IF i > Len(W) THEN <<>>
    ELSE LET cell == IF i \in DOMAIN row THEN row[i] ELSE <<>>
         IN  <<" ">> \o cell \o [j \in 1..(W[i] - Len(cell) + 1) |-> " "] \o <<v>>
                \o ExpectedCells(row, i + 1, W, v)

\* the widths the claim describes: one per column of the longest row, each
\* the length of the longest cell of the column and at least 3
ExpectedWidths(rows) ==
    [i \in 1..SetMax({Len(rows[r]) : r \in DOMAIN rows}) |->
        SetMax({3} \cup {Len(rows[r][i]) :
                    r \in {q \in DOMAIN rows : i <= Len(rows[q])}})]

(* C7: render_table draws as many columns as the longest buffered row has  *)
(* cells, column i as wide as max(3, longest cell of column i), and a cell *)
(* missing from a shorter row as the empty string padded to that width.    *)
C7_ColumnLayout ==
    [][EndsTable =>
            \A rows \in {table_rows} :
            \A W \in {ExpectedWidths(rows)} :
            \A v \in {IF caps.unicode THEN "U+2502" ELSE "|"} :
            \A ls \in {Lines(Appended)} :
                /\ Len(ls) = Len(rows) + 4
                /\ \A r \in DOMAIN rows :
                        StripSgr(ls[IF r = 1 THEN 2 ELSE r + 2])
                            = <<v>> \o ExpectedCells(rows[r], 1, W, v)
                /\ \A w \in {Len(ExpectedCells(<<>>, 1, W, v)) + 1} :
                        \A i \in {1, 3, Len(rows) + 3} : Len(ls[i]) = w]_vars

\* a table was rendered whose second row lacks a cell, with one column
\* wider than 3 and one at the minimum width
C7_Witness ==
    /\ ev.k = "EndTable"
    /\ Len(table_rows) = 2
    /\ Len(table_rows[1]) = 2
    /\ Len(table_rows[2]) = 1
    /\ table_rows[1][1] = <<"a", "b", "c", "d">>
    /\ table_rows[1][2] = <<"a">>

---------------------------------------------------------------------------
InitList ==
    /\ caps \in AllCaps
    /\ NewRenderer
    /\ ParserOf(TerminalOptions)
    /\ limit = MaxListEvents
    /\ recording = FALSE

NextList ==
    \/ StartList
    \/ StartItem
    \/ EndItem
    \/ EndList
    \/ TaskListMarker
    \/ Text
    \/ StartBlockQuote
    \/ EndBlockQuote
    \/ Finish

\* lists of items, nested and quoted, with and without a task marker
SpecList == InitList /\ [][NextList]_vars

\* the marker of a task item as the terminal shows it
ShownMarker(checked) ==
    (IF caps.unicode
     THEN (IF checked THEN <<"U+2611">> ELSE <<"U+2610">>)
     ELSE (IF checked THEN <<"[", "x", "]">> ELSE <<"[", " ", "]">>)) \o <<" ">>

(* C8: for every profile, TaskListMarker(checked) appends the checked       *)
(* marker when checked and the unchecked marker when not, the Text event   *)
(* that follows appends its text right after the marker, and what is       *)
(* appended for a checked marker differs from what is appended for an      *)
(* unchecked one.                                                          *)
C8_TaskMarkerThenText ==
    [][/\ (ev'.k = "TaskListMarker" /\ nev' = nev + 1) =>
            /\ StripSgr(Appended) = ShownMarker(ev'.a)
            /\ StripSgr(Appended) # ShownMarker(~ev'.a)
            /\ Appended # TaskMarkerText(~ev'.a)
       /\ (ev.k = "TaskListMarker" /\ ev'.k = "Text") =>
            /\ Appended = ev'.a
            /\ \A m \in {TaskMarkerText(ev.a)} :
                    EndsWith(output', m \o ev'.a) /\ EndsWith(output, m)]_vars

\* a checked item and its text were rendered with colors and glyphs
C8_Witness ==
    /\ ev.k = "Text"
    /\ caps.unicode
    /\ caps.basic_ansi
    /\ EndsWith(output, FG_GREEN \o <<"U+2611", " ">> \o RESET \o <<"a">>)

---------------------------------------------------------------------------
\* the events of hist are of these kinds, in this order
KindsAre(h, kinds) ==
    /\ Len(h) = Len(kinds)
    /\ \A i \in DOMAIN kinds : h[i].k = kinds[i]

\* the document is a heading of one text followed by a paragraph of one text
HeadingThenParagraph(h) ==
    KindsAre(h, <<"StartHeading", "Text", "EndHeading",
                  "StartParagraph", "Text", "EndParagraph">>)

(* C9: the plain-text converter appends nothing for Start Heading, its     *)
(* string never holds an ESC byte or a '#', and for a heading followed by  *)
(* a paragraph it returns the heading text and later the paragraph text.   *)
C9_PlainHeadingParagraph ==
    [][/\ (ev'.k = "StartHeading" /\ nev' = nev + 1) => plain' = plain
       /\ \A i \in DOMAIN plain' : plain'[i] \notin {ESC, "#"}
       /\ (phase' = "done" /\ HeadingThenParagraph(hist')) =>
            plain' = hist'[2].a \o <<NL, NL>> \o hist'[5].a]_vars

\* the text of a heading "a" and a paragraph "abcd" was returned
C9_Witness ==
    /\ phase = "done"
    /\ HeadingThenParagraph(hist)
    /\ plain = <<"a", NL, NL, "a", "b", "c", "d">>

\* the number of places where p occurs in s
Occurrences(s, p) ==
    Cardinality({i \in 1..(Len(s) - Len(p) + 1) : SubSeq(s, i, i + Len(p) - 1) = p})

\* the number of events of kind k in h
EventsOf(h, k) == Cardinality({i \in DOMAIN h : h[i].k = k})

(* C10: in the string markdown_to_plain_text returns, every list item is   *)
(* preceded by "  - ", every block quote by "> ", and every code block is  *)
(* enclosed by two ``` delimiters, wherever the element is in the document *)
(* (the texts of the documents hold none of these).                        *)
C10_PrefixesKept ==
    phase = "done" =>
        /\ Occurrences(plain, <<" ", " ", "-", " ">>) = EventsOf(hist, "StartItem")
        /\ Occurrences(plain, <<">", " ">>) = EventsOf(hist, "StartBlockQuote")
        /\ Occurrences(plain, <<BACKTICK, BACKTICK, BACKTICK>>)
                = 2 * EventsOf(hist, "StartCodeBlock")

---------------------------------------------------------------------------
(* main: `let caps = terminal::TerminalCaps::detect();` in a process of    *)
(* any environment, on any platform.  The renderer is not part of this     *)
(* step; its fields keep their first values.                               *)

InitDetect ==
    /\ caps = basic
    /\ NewRenderer
    /\ NewSource
    /\ limit = 0
    /\ recording = FALSE
    /\ wellformed = TRUE
    /\ options = TerminalOptions
    /\ env \in Environments
    /\ windows \in BOOLEAN
    /\ detected = <<>>
    /\ calls = <<>>
    /\ cli = NoCommandLine
    /\ recent = NoRecentFiles
    /\ viewer = NoViewer

Detect ==
    /\ detected = <<>>
    /\ detected' = <<detect(env, windows)>>
    /\ UNCHANGED <<rvars, stack, nev, limit, phase, ev, recording, hist, plain,
                   wellformed, options, env, windows, calls, cli, recent, viewer>>

NextDetect == Detect

SpecDetect == InitDetect /\ [][NextDetect]_vars

\* the variable is present in the environment, with a value the process reads
Present(v) == v.st = "ok"

\* the environment holds the marker of a full-feature host
HostMarker ==
    \/ Present(env.WT_SESSION)
    \/ Present(env.VSCODE_INJECTION)
    \/ (Present(env.TERM_PROGRAM) /\ env.TERM_PROGRAM.val = <<"v", "s", "c", "o", "d", "e">>)
    \/ Present(env.ConEmuPID)

\* the terminal type the process reads: the empty string when TERM is unset
TermRead == IF Present(env.TERM) THEN env.TERM.val ELSE <<>>

(* C11: whenever the environment holds a full-feature host marker          *)
(* (WT_SESSION, VSCODE_INJECTION, TERM_PROGRAM = vscode or ConEmuPID),      *)
(* detect returns all four flags true, whatever COLORTERM and TERM are.    *)
C11_HostMarkerWins ==
    (detected # <<>> /\ HostMarker) =>
        /\ detected[1].true_color
        /\ detected[1].hyperlinks
        /\ detected[1].unicode
        /\ detected[1].basic_ansi

\* VS Code was detected by TERM_PROGRAM alone, with a dumb terminal type
C11_Witness ==
    /\ detected # <<>>
    /\ env.TERM_PROGRAM = Value(<<"v", "s", "c", "o", "d", "e">>)
    /\ ~Present(env.WT_SESSION) /\ ~Present(env.VSCODE_INJECTION)
    /\ ~Present(env.ConEmuPID)
    /\ env.TERM = Value(<<"d", "u", "m", "b">>)
    /\ env.COLORTERM = Unset
    /\ ~windows
    /\ detected[1] = FullCaps

\* TERM names a terminal family of the allow-list
TermInAllowList ==
    \E f \in {<<"x", "t", "e", "r", "m">>, <<"v", "t", "e">>,
              <<"k", "i", "t", "t", "y">>, <<"i", "t", "e", "r", "m">>} :
        Contains(TermRead, f)

(* C12: without a host marker, detect returns hyperlinks = true exactly    *)
(* when TERM contains xterm, vte, kitty or iterm; in every other           *)
(* environment, an unset TERM on any platform included, it is false.       *)
C12_HyperlinksByAllowList ==
    (detected # <<>> /\ ~HostMarker) =>
        /\ detected[1].hyperlinks <=> TermInAllowList
        /\ ~Present(env.TERM) => ~detected[1].hyperlinks

\* hyperlinks by the terminal type alone: a VTE terminal, no colors named
C12_Witness ==
    /\ detected # <<>>
    /\ ~HostMarker
    /\ ~windows
    /\ env.TERM = Value(<<"v", "t", "e">>)
    /\ env.COLORTERM = Unset
    /\ detected[1].hyperlinks
    /\ ~detected[1].true_color

(* C13: detect returns unicode = basic_ansi in every environment; without  *)
(* a host marker both are true exactly when TERM is non-empty or the       *)
(* platform is Windows, so on Windows basic_ansi is always true.           *)
C13_UnicodeAsBasicAnsi ==
    detected # <<>> =>
        /\ detected[1].unicode = detected[1].basic_ansi
        /\ ~HostMarker =>
                (detected[1].unicode <=> (TermRead # <<>> \/ windows))
        /\ windows => detected[1].basic_ansi

\* on Windows, with nothing set, ANSI and Unicode are assumed
C13_Witness ==
    /\ detected # <<>>
    /\ env = NoEnvironment
    /\ windows
    /\ detected[1].unicode
    /\ detected[1].basic_ansi
    /\ ~detected[1].hyperlinks

---------------------------------------------------------------------------
(* One process calling render_to_terminal several times, each call with    *)
(* its own document and profile, any number of times.  The parser is a     *)
(* function of the text and of the options, which are the same in every    *)
(* call: two calls with the same text are two calls with the same events.  *)
(* calls remembers one of the calls that have returned, any of them.       *)

\* the profile without any capability and the one with all of them
ExtremeCaps == {basic, FullCaps}

InitCalls ==
    /\ caps \in ExtremeCaps
    /\ NewRenderer
    /\ ParserOf(TerminalOptions)
    /\ limit = MaxCallEvents
    /\ recording = TRUE

\* the call has returned (the renderer is dropped) and render_to_terminal is
\* called again: a new parser and TerminalRenderer::new(caps.clone())
Call ==
    /\ phase = "done"
    /\ calls' \in {calls, <<[caps |-> caps, events |-> hist, returned |-> output]>>}
    /\ \E c \in ExtremeCaps :
        \A r \in {new(c)} :
            /\ caps' = r.caps
            /\ output' = r.output
            /\ in_heading' = r.in_heading
            /\ in_emphasis' = r.in_emphasis
            /\ in_strong' = r.in_strong
            /\ in_strikethrough' = r.in_strikethrough
            /\ in_code_block' = r.in_code_block
            /\ in_block_quote' = r.in_block_quote
            /\ in_list' = r.in_list
            /\ list_index' = r.list_index
            /\ pending_link' = r.pending_link
            /\ link_text' = r.link_text
            /\ in_table' = r.in_table
            /\ table_row' = r.table_row
            /\ table_rows' = r.table_rows
            /\ in_table_head' = r.in_table_head
            /\ current_cell' = r.current_cell
    /\ stack' = <<>>
    /\ nev' = 0
    /\ phase' = "run"
    /\ ev' = NoEvent
    /\ hist' = <<>>
    /\ UNCHANGED <<limit, recording, plain, wellformed, options, env, windows,
                   detected, cli, recent, viewer>>

NextCalls ==
    \/ StartParagraph
    \/ EndParagraph
    \/ StartBlockQuote
    \/ EndBlockQuote
    \/ StartEmphasis
    \/ EndEmphasis
    \/ Text
    \/ Finish
    \/ Call

SpecCalls == InitCalls /\ [][NextCalls]_vars

(* C14: two calls of render_to_terminal with the same text and the same    *)
(* profile return the same string, whatever was rendered in between and    *)
(* before: every call starts from a fresh renderer.                        *)
C14_SameCallSameString ==
    /\ phase = "done" =>
            \A i \in DOMAIN calls :
                (calls[i].caps = caps /\ calls[i].events = hist)
                    => calls[i].returned = output
    /\ (phase = "run" /\ nev = 0) => output = <<>>

\* the same quoted paragraph was rendered twice with the full profile
C14_Witness ==
    /\ phase = "done"
    /\ calls # <<>>
    /\ caps = FullCaps
    /\ calls[1].caps = caps
    /\ calls[1].events = hist
    /\ KindsAre(hist, <<"StartBlockQuote", "StartParagraph", "Text",
                        "EndParagraph", "EndBlockQuote">>)
    /\ calls[1].returned = output

---------------------------------------------------------------------------
InitDoc ==
    /\ caps \in AllCaps
    /\ NewRenderer
    /\ ParserOf(TerminalOptions)
    /\ limit = MaxDocEvents
    /\ recording = TRUE

NextDoc ==
    \/ StartHeading
    \/ EndHeading
    \/ StartParagraph
    \/ EndParagraph
    \/ Text
    \/ Finish

\* documents of headings and paragraphs of text
SpecDoc == InitDoc /\ [][NextDoc]_vars

(* C15: with the basic profile, a level-1 heading followed by a paragraph  *)
(* ("# Hello\n\nWorld") is rendered to a string that contains the heading  *)
(* with its marker, "# " and the heading text, and the paragraph text.     *)
C15_HeadingKeepsMarker ==
    (caps = basic /\ phase = "done" /\ HeadingThenParagraph(hist) /\ hist[1].a = 1) =>
        /\ Contains(output, <<"#", " ">> \o hist[2].a)
        /\ Contains(output, hist[5].a)

---------------------------------------------------------------------------
(* The renderer fed any sequence of events: process_event is called with   *)
(* every event in every state, whether or not a parser could hand it over. *)

InitAny ==
    /\ caps \in ExtremeCaps
    /\ NewRenderer
    /\ NewSource
    /\ NoHost
    /\ wellformed = FALSE
    /\ options = TerminalOptions
    /\ limit = MaxAnyEvents
    /\ recording = FALSE

SpecAny == InitAny /\ [][Next]_vars

\* s is a string
IsString(s) == DOMAIN s = 1..Len(s) /\ \A i \in DOMAIN s : s[i] \in STRING

\* every field of the renderer holds a value of its type
TypeOK ==
    /\ IsString(output)
    /\ Len(in_heading) <= 1
    /\ {in_emphasis, in_strong, in_strikethrough, in_code_block, in_list,
        in_table, in_table_head} \subseteq BOOLEAN
    /\ in_block_quote \in Nat
    /\ Len(list_index) <= 1 /\ \A i \in DOMAIN list_index : list_index[i] \in Nat
    /\ Len(pending_link) <= 1
    /\ IsString(link_text)
    /\ IsString(current_cell)
    /\ \A i \in DOMAIN table_row : IsString(table_row[i])
    /\ \A i \in DOMAIN table_rows :
            \A j \in DOMAIN table_rows[i] : IsString(table_rows[i][j])

\* process_event takes every event
TakesEveryEvent ==
    /\ ENABLED StartHeading /\ ENABLED StartParagraph /\ ENABLED StartEmphasis
    /\ ENABLED StartStrong /\ ENABLED StartStrikethrough /\ ENABLED StartCodeBlock
    /\ ENABLED StartBlockQuote /\ ENABLED StartList /\ ENABLED StartItem
    /\ ENABLED StartLink /\ ENABLED StartImage /\ ENABLED StartTable
    /\ ENABLED StartTableHead /\ ENABLED StartTableRow /\ ENABLED StartTableCell
    /\ ENABLED EndHeading /\ ENABLED EndParagraph /\ ENABLED EndEmphasis
    /\ ENABLED EndStrong /\ ENABLED EndStrikethrough /\ ENABLED EndCodeBlock
    /\ ENABLED EndBlockQuote /\ ENABLED EndList /\ ENABLED EndItem
    /\ ENABLED EndLink /\ ENABLED EndImage /\ ENABLED EndTable
    /\ ENABLED EndTableHead /\ ENABLED EndTableRow /\ ENABLED EndTableCell
    /\ ENABLED Text /\ ENABLED InlineCode /\ ENABLED SoftBreak /\ ENABLED HardBreak
    /\ ENABLED Rule /\ ENABLED TaskListMarker /\ ENABLED OtherEvent

(* C16: in every state any sequence of events leads to, balanced or not,   *)
(* process_event takes every event and finish returns a string, and no     *)
(* field leaves its type: the block-quote depth never underflows, End Link *)
(* without a pending link and End Table without rows append nothing, and a *)
(* table whose rows have no cells is drawn.                                *)
C16_Total ==
    /\ TypeOK
    /\ (phase = "run" /\ nev < limit) => TakesEveryEvent
    /\ phase = "run" => ENABLED Finish
    /\ phase = "done" => (IsString(output) /\ EndsWith(output, <<NL>>))

\* a table of one row without cells was drawn, outside of any table
C16_Witness ==
    /\ ~wellformed
    /\ ev.k = "EndTable"
    /\ table_rows = <<<<>>>>
    /\ caps = basic
    /\ output = <<"+", "+", NL, "|", NL, "+", "+", NL, "+", "+", NL, NL>>

---------------------------------------------------------------------------
(* Block quotes around paragraphs and list items, as a parser hands them   *)
(* over (wellformed) and in any other order.                               *)

InitQuote ==
    /\ caps \in {c \in AllCaps : ~c.true_color /\ ~c.hyperlinks}
    /\ NewRenderer
    /\ NewSource
    /\ NoHost
    /\ wellformed \in BOOLEAN
    /\ options = TerminalOptions
    /\ limit = MaxQuoteEvents
    /\ recording = FALSE

NextQuote ==
    \/ StartBlockQuote
    \/ EndBlockQuote
    \/ StartParagraph
    \/ EndParagraph
    \/ StartList
    \/ StartItem
    \/ EndItem
    \/ EndList
    \/ Text
    \/ HardBreak
    \/ Finish

SpecQuote == InitQuote /\ [][NextQuote]_vars

\* this step hands over an event of kind k
Handles(k) == ev'.k = k /\ (nev' # nev \/ stack' # stack)

\* the block quotes that are open in a balanced stream
OpenQuotes(st) == Cardinality({i \in DOMAIN st : st[i] = "BlockQuote"})

\* the quote bars in s, each followed by a space
QuoteBars(s) == Occurrences(s, <<(IF caps.unicode THEN "U+2502" ELSE "|"), " ">>)

(* C20: the block-quote depth is never negative, End BlockQuote at depth 0 *)
(* leaves it 0, in a balanced stream it is the number of open block        *)
(* quotes, and Start Paragraph, Start Item and HardBreak each append as    *)
(* many quote bars as the depth, none at depth 0.                          *)
C20_QuoteDepth ==
    [][/\ in_block_quote' \in Nat
       /\ wellformed => in_block_quote' = OpenQuotes(stack')
       /\ (Handles("EndBlockQuote") /\ in_block_quote = 0) => in_block_quote' = 0
       /\ Handles("StartBlockQuote") => in_block_quote' = in_block_quote + 1
       /\ (Handles("StartParagraph") \/ Handles("StartItem") \/ Handles("HardBreak")) =>
            /\ QuoteBars(Appended) = in_block_quote
            /\ in_block_quote = 0 =>
                    \A i \in DOMAIN Appended : Appended[i] \notin {"|", "U+2502", ESC}
            /\ in_block_quote' = in_block_quote]_vars

\* a paragraph in a quote in a quote got two bars, in color
C20_Witness ==
    /\ wellformed
    /\ ev.k = "StartParagraph"
    /\ in_block_quote = 2
    /\ caps.unicode /\ caps.basic_ansi
    /\ EndsWith(output, FG_GRAY \o <<"U+2502", " ", "U+2502", " ">> \o RESET)

---------------------------------------------------------------------------
(* C17: the three converters read the same event source, a parser with     *)
(* tables, footnotes, strikethrough and task lists enabled: the parser of  *)
(* the running converter has the four extensions, as has the parser of     *)
(* each of the other converters, and hands over what they enable.          *)
C17_SameEventSource ==
    /\ options = AllExtensions
    /\ TerminalOptions = AllExtensions
    /\ HtmlOptions = AllExtensions
    /\ PlainOptions = AllExtensions
    /\ \A k \in {"Table", "Strikethrough", "TaskListMarker"} : ExtensionOf(k) \subseteq options

---------------------------------------------------------------------------
InitCellLink ==
    /\ caps \in AllCaps
    /\ NewRenderer
    /\ ParserOf(TerminalOptions)
    /\ limit = MaxCellLinkEvents
    /\ recording = FALSE

NextCellLink ==
    \/ TableEvents
    \/ LinkEvents
    \/ Text
    \/ Finish

\* tables whose cells hold text and links
SpecCellLink == InitCellLink /\ [][NextCellLink]_vars

\* the characters of the link destinations, which no text holds
UrlChars == UNION {Range(u) : u \in Urls}

(* C18: a Text event received while a link is pending inside a table cell  *)
(* is appended to the cell buffer current_cell.                            *)
C18_LinkTextToCell ==
    [][(Handles("Text") /\ pending_link # <<>> /\ in_table) =>
            current_cell' = current_cell \o ev'.a]_vars

(* C19: inside a table cell the pending link comes first: a Text event     *)
(* goes to link_text and not to current_cell, End Link appends the         *)
(* rendered link to output and leaves the cell and the rows as they are,   *)
(* so the table drawn at End Table, after the link, holds no link.         *)
C19_LinkBeforeTable ==
    [][/\ (Handles("Text") /\ pending_link # <<>> /\ in_table) =>
            /\ link_text' = link_text \o ev'.a
            /\ current_cell' = current_cell
            /\ output' = output
       /\ (EndsPendingLink /\ in_table) =>
            /\ Contains(Appended, pending_link[1].url)
            /\ Contains(Appended, link_text)
            /\ (caps.hyperlinks <=> StartsWith(Appended, <<ESC, "]", "8", ";", ";">>))
            /\ UNCHANGED <<current_cell, table_row, table_rows>>
       /\ EndsTable =>
            /\ \A i \in DOMAIN Appended : Appended[i] \notin UrlChars
            /\ \A r \in DOMAIN table_rows : \A c \in DOMAIN table_rows[r] :
                    \A i \in DOMAIN table_rows[r][c] : table_rows[r][c][i] \notin UrlChars]_vars

\* the link of the only cell stands before the top border of a table whose
\* only cell is empty
C19_Witness ==
    /\ ev.k = "EndTable"
    /\ caps = basic
    /\ table_rows = << << <<>> >> >>
    /\ Contains(output, <<"a", "b", "c", "d", " ", "(", "u", ")",
                          "+", "-", "-", "-", "-", "-", "+", NL>>)

---------------------------------------------------------------------------
\* this step is renderer.finish()
Finishes == phase = "run" /\ phase' = "done"

\* s without the newlines it ends with
RECURSIVE WithoutTrailingNewlines(_)
WithoutTrailingNewlines(s) ==
    IF s # <<>> /\ s[Len(s)] = NL
    THEN WithoutTrailingNewlines(SubSeq(s, 1, Len(s) - 1))
    ELSE s

---------------------------------------------------------------------------
(* C22: the life of a link buffer.  Start Link sets pending_link to the    *)
(* destination and title of the link, empties link_text and leaves output; *)
(* while the link is pending every Text event is appended to link_text and *)
(* leaves output and pending_link; End Link appends the buffered text to   *)
(* output exactly once and leaves pending_link and link_text empty, and no *)
(* text is buffered while no link is pending: a link starts with none of   *)
(* the text of the link before it.                                         *)
C22_LinkLifecycle ==
    [][/\ Handles("StartLink") =>
            /\ pending_link' = <<[url |-> ev'.a, title |-> ev'.b]>>
            /\ link_text' = <<>>
            /\ output' = output
       /\ (Handles("Text") /\ pending_link # <<>>) =>
            /\ link_text' = link_text \o ev'.a
            /\ output' = output
            /\ pending_link' = pending_link
       /\ EndsPendingLink =>
            /\ link_text # <<>> => Occurrences(Appended, link_text) = 1
            /\ pending_link' = <<>>
            /\ link_text' = <<>>
       /\ pending_link' = <<>> => link_text' = <<>>]_vars

\* the second link of a paragraph was rendered with its own text only
C22_Witness ==
    /\ ev.k = "EndLink"
    /\ caps = basic
    /\ pending_link = <<>>
    /\ link_text = <<>>
    /\ EndsWith(output, <<"a", "b", "c", "d", " ", "(", "u", ")",
                          "a", " ", "(", "v", "w", ")">>)

---------------------------------------------------------------------------
InitGrid ==
    /\ caps \in ExtremeCaps
    /\ NewRenderer
    /\ NewSource
    /\ NoHost
    /\ wellformed \in BOOLEAN
    /\ options = TerminalOptions
    /\ limit = (IF wellformed THEN MaxGridEvents ELSE MaxGridAnyEvents)
    /\ recording = TRUE

NextGrid ==
    \/ TableEvents
    \/ Text
    \/ InlineCode
    \/ SoftBreak
    \/ Finish

\* tables of text and code cells, the events recorded; balanced streams and
\* any sequence of these events
SpecGrid == InitGrid /\ [][NextGrid]_vars

\* what an event of cell content adds to the cell
CellContent(e) ==
    CASE e.k = "Text" -> e.a
      [] e.k = "InlineCode" -> <<BACKTICK>> \o e.a \o <<BACKTICK>>
      [] e.k = "SoftBreak" -> <<" ">>
      [] OTHER -> <<>>

\* the content of the events h[i..j]
RECURSIVE ContentOf(_, _, _)
ContentOf(h, i, j) ==
    IF i > j THEN <<>> ELSE CellContent(h[i]) \o ContentOf(h, i + 1, j)

\* the positions in i..j of the events of these kinds, in order
RECURSIVE IndicesOf(_, _, _, _)
IndicesOf(h, kinds, i, j) ==
    IF i > j THEN <<>>
    ELSE (IF h[i].k \in kinds THEN <<i>> ELSE <<>>) \o IndicesOf(h, kinds, i + 1, j)

\* the last position up to j of an event of these kinds, 0 when there is none
LastOf(h, kinds, j) == SetMax({0} \cup {i \in 1..j : h[i].k \in kinds})

\* the rows of the last table of the stream h, as the events give them: one
\* row for each End TableHead and End TableRow, one cell for each End
\* TableCell of the row, the cell holding the content handed over since its
\* Start TableCell
GridOf(h) ==
    LET t0 == LastOf(h, {"StartTable"}, Len(h))
        ends == IndicesOf(h, {"EndTableHead", "EndTableRow"}, t0 + 1, Len(h))
    IN  [r \in DOMAIN ends |->
            LET first == LastOf(h, {"StartTableHead", "StartTableRow"}, ends[r])
                cells == IndicesOf(h, {"EndTableCell"}, first, ends[r])
            IN  [c \in DOMAIN cells |->
                    ContentOf(h, LastOf(h, {"StartTableCell"}, cells[c]), cells[c])]]

\* the row that the events give first is the header
HeaderFirst(h) ==
    LET t0 == LastOf(h, {"StartTable"}, Len(h))
        ends == IndicesOf(h, {"EndTableHead", "EndTableRow"}, t0 + 1, Len(h))
    IN  /\ ends # <<>>
        /\ h[ends[1]].k = "EndTableHead"
        /\ \A r \in 2..Len(ends) : h[ends[r]].k = "EndTableRow"

(* C23: between Start Table and End Table the content of a cell (Text,     *)
(* InlineCode, SoftBreak, no link pending) is appended to the cell buffer  *)
(* and output is left as it is by every event; a TableRow that ends inside *)
(* the head pushes no row; at End Table of a balanced stream the buffered  *)
(* grid is the rows of the table as the events gave them, each once, in    *)
(* their order, the header first, and only then the grid is written to     *)
(* output, one row line for each buffered row.                             *)
C23_TableBuffered ==
    [][/\ (in_table /\ pending_link = <<>>
              /\ (Handles("Text") \/ Handles("InlineCode") \/ Handles("SoftBreak"))) =>
            /\ current_cell' = current_cell \o CellContent(ev')
            /\ UNCHANGED <<output, table_row, table_rows>>
       /\ (in_table /\ ~Handles("StartTable") /\ ~Handles("EndTable") /\ ~Finishes) =>
            output' = output
       /\ (Handles("EndTableRow") /\ in_table_head) => table_rows' = table_rows
       /\ (wellformed /\ Handles("EndTable")) =>
            /\ HeaderFirst(hist)
            /\ table_rows = GridOf(hist)
            /\ table_rows' = table_rows
            /\ \A ls \in {Lines(Appended)} :
                    Cardinality({i \in DOMAIN ls : IsRowLine(ls[i])}) = Len(table_rows)]_vars

\* a table of a header of two cells and a body row of one cell was written
C23_Witness ==
    /\ wellformed
    /\ ev.k = "EndTable"
    /\ caps = basic
    /\ table_rows = << << <<"a">>, <<>> >>, << <<"a", "b", "c", "d">> >> >>
    /\ Contains(output, <<"|", " ", "a", "b", "c", "d", " ", "|", " ", " ", " ", " ", " ", "|", NL>>)

---------------------------------------------------------------------------
InitItems ==
    /\ caps \in AllCaps
    /\ NewRenderer
    /\ ParserOf(TerminalOptions)
    /\ limit = MaxItemEvents
    /\ recording = TRUE

NextItems ==
    \/ StartList
    \/ StartItem
    \/ EndItem
    \/ EndList
    \/ Text
    \/ Finish

\* lists of items of text, ordered and unordered, nested, the events recorded
SpecItems == InitItems /\ [][NextItems]_vars

\* the decimal numerals of the numbers an item of these lists can get
Numerals ==
    <<<<"1">>, <<"2">>, <<"3">>, <<"4">>, <<"5">>, <<"6">>, <<"7">>, <<"8">>,
      <<"9">>, <<"1", "0">>, <<"1", "1">>, <<"1", "2">>, <<"1", "3">>,
      <<"1", "4">>, <<"1", "5">>, <<"1", "6">>>>

\* the position of the Start List that opened the list the stream h is in,
\* when no list has ended since: the items of that list hold no nested list
FlatListAt(h) ==
    LET t == LastOf(h, {"StartList"}, Len(h))
    IN  IF t > 0 /\ IndicesOf(h, {"EndList"}, t + 1, Len(h)) = <<>> THEN t ELSE 0

(* C24: in an ordered list that starts at s and whose items hold no nested *)
(* list, the i-th Start Item appends " N. " with N = s + i - 1 and leaves  *)
(* the counter at N + 1; in an unordered list of that kind every Start     *)
(* Item appends " * ", with the Unicode bullet for the asterisk when       *)
(* unicode, and the counter stays absent (no block quote is open in these  *)
(* lists, so that no quote prefix precedes the number or the bullet).      *)
C24_ItemNumbers ==
    [][Handles("StartItem") =>
        \A t \in {FlatListAt(hist)} :
            t > 0 =>
                \A i \in {Len(IndicesOf(hist, {"StartItem"}, t + 1, Len(hist))) + 1} :
                    IF hist[t].a # <<>>
                    THEN \A N \in {hist[t].a[1] + i - 1} :
                            /\ Appended = <<" ">> \o Numerals[N] \o <<".", " ">>
                            /\ list_index' = <<N + 1>>
                    ELSE /\ Appended = <<" ", (IF caps.unicode THEN "U+2022" ELSE "*"), " ">>
                         /\ list_index' = <<>>]_vars

\* the second item of a list that starts at 9 got the number 10
C24_Witness ==
    /\ ev.k = "StartItem"
    /\ list_index = <<11>>
    /\ EndsWith(output, <<" ", "9", ".", " ", "a", NL, " ", "1", "0", ".", " ">>)

\* the lists that are open after the events h[i..], innermost last, each
\* with the start number of its Start List and the number of its own items
\* so far; open holds the lists open before h[i]
RECURSIVE OpenListsFrom(_, _, _)
OpenListsFrom(h, i, open) ==
    IF i > Len(h) THEN open
    ELSE OpenListsFrom(h, i + 1,
            CASE h[i].k = "StartList" -> Append(open, [start |-> h[i].a, items |-> 0])
              [] h[i].k = "EndList" -> SubSeq(open, 1, Len(open) - 1)
              [] h[i].k = "StartItem" ->
                    [open EXCEPT ![Len(open)].items = open[Len(open)].items + 1]
              [] OTHER -> open)

OpenLists(h) == OpenListsFrom(h, 1, <<>>)

(* C29: in a balanced stream with nested lists every list keeps its own    *)
(* kind and numbering: a Start Item of an ordered list appends the next    *)
(* number of that list, also after a nested list has ended inside it, a    *)
(* Start Item of an unordered list a bullet, and in_list is true while any *)
(* list is open.                                                           *)
C29_EnclosingListKept ==
    [][/\ Handles("StartItem") =>
            \A open \in {OpenLists(hist)} :
            \A own \in {open[Len(open)]} :
                IF own.start # <<>>
                THEN Appended = <<" ">> \o Numerals[own.start[1] + own.items] \o <<".", " ">>
                ELSE Appended = <<" ", (IF caps.unicode THEN "U+2022" ELSE "*"), " ">>
       /\ OpenLists(hist') # <<>> => in_list']_vars

---------------------------------------------------------------------------
InitRoute ==
    /\ caps \in ExtremeCaps
    /\ NewRenderer
    /\ NewSource
    /\ NoHost
    /\ wellformed \in BOOLEAN
    /\ options = TerminalOptions
    /\ limit = (IF wellformed THEN MaxRouteEvents ELSE MaxRouteAnyEvents)
    /\ recording = FALSE

NextRoute ==
    \/ StartParagraph
    \/ EndParagraph
    \/ StartCodeBlock
    \/ EndCodeBlock
    \/ LinkEvents
    \/ TableEvents
    \/ Text
    \/ SoftBreak
    \/ Finish

\* text and soft breaks in paragraphs, code blocks, links and table cells;
\* balanced streams and any sequence of these events
SpecRoute == InitRoute /\ [][NextRoute]_vars

(* C25: a Text and a SoftBreak event each change exactly one of link_text,  *)
(* current_cell and output and leave the other two: link_text when a link  *)
(* is pending, else current_cell when in a table, else output; the buffer   *)
(* gets the text of the Text event (in output, outside a code block, as it  *)
(* is) and exactly one space for a SoftBreak.                               *)
C25_OneBufferChanged ==
    [][(Handles("Text") \/ Handles("SoftBreak")) =>
        \A added \in {IF ev'.k = "SoftBreak" THEN <<" ">> ELSE ev'.a} :
            IF pending_link # <<>>
            THEN /\ link_text' = link_text \o added
                 /\ link_text' # link_text
                 /\ UNCHANGED <<current_cell, output>>
            ELSE IF in_table
            THEN /\ current_cell' = current_cell \o added
                 /\ current_cell' # current_cell
                 /\ UNCHANGED <<link_text, output>>
            ELSE /\ StartsWith(output', output)
                 /\ output' # output
                 /\ (ev'.k = "SoftBreak" \/ ~in_code_block) => Appended = added
                 /\ UNCHANGED <<link_text, current_cell>>]_vars

\* a soft break went to the buffer of the pending link
C25_Witness ==
    /\ ev.k = "SoftBreak"
    /\ wellformed
    /\ pending_link # <<>>
    /\ link_text = <<"a", " ">>

\* t with two spaces after each of its newlines but the last character
RECURSIVE IndentAfterNewlines(_, _)
IndentAfterNewlines(t, i) ==
    IF i > Len(t) THEN <<>>
    ELSE <<t[i]>> \o (IF t[i] = NL /\ i < Len(t) THEN <<" ", " ">> ELSE <<>>)
            \o IndentAfterNewlines(t, i + 1)

\* the number of lines of a text: one for each newline, and one for the
\* characters after the last newline, if any
LineCount(t) ==
    Occurrences(t, <<NL>>) + (IF t # <<>> /\ t[Len(t)] # NL THEN 1 ELSE 0)

(* C26: a Text event in a code block, with no link pending and not in a    *)
(* table, appends each of its lines as two spaces, the line and one        *)
(* newline: what is appended is the text, ended by a newline if it was     *)
(* not, with two spaces before every line, blank lines too, and it holds   *)
(* as many newlines as the text has lines.                                 *)
C26_CodeLinesIndented ==
    [][(Handles("Text") /\ in_code_block /\ pending_link = <<>> /\ ~in_table) =>
        \A t \in {ev'.a} :
            /\ Appended = <<" ", " ">> \o
                    IndentAfterNewlines((IF t[Len(t)] = NL THEN t ELSE Append(t, NL)), 1)
            /\ Occurrences(Appended, <<NL>>) = LineCount(t)
            /\ Occurrences(Appended, <<NL, " ", " ">>) = LineCount(t) - 1]_vars

\* a text of three lines, the second blank and the third without a newline,
\* was written as three indented lines
C26_Witness ==
    /\ ev.k = "Text"
    /\ in_code_block
    /\ EndsWith(output, <<NL, " ", " ", "x", NL, " ", " ", NL, " ", " ", "y", NL>>)

---------------------------------------------------------------------------
(* C27: Start Image appends exactly [Image: <url> "<title>"] when the      *)
(* title is not empty and exactly [Image: <url>] when it is, between a dim *)
(* and a reset escape when basic_ansi and with no escape otherwise.        *)
C27_ImageForm ==
    [][Handles("StartImage") =>
        \A url \in {ev'.a} : \A title \in {ev'.b} :
            Appended =
                (IF caps.basic_ansi THEN <<ESC, "[", "2", "m">> ELSE <<>>)
                    \o <<"[", "I", "m", "a", "g", "e", ":", " ">> \o url
                    \o (IF title # <<>> THEN <<" ", "\"">> \o title \o <<"\"">> ELSE <<>>)
                    \o <<"]">>
                    \o (IF caps.basic_ansi THEN <<ESC, "[", "0", "m">> ELSE <<>>)]_vars

---------------------------------------------------------------------------
\* the command lines of at most n arguments
RECURSIVE ArgLists(_)
ArgLists(n) ==
    IF n = 0 THEN {<<>>}
    ELSE ArgLists(n - 1) \cup
            {Append(l, a) : l \in {m \in ArgLists(n - 1) : Len(m) = n - 1}, a \in ArgStrings}

InitArgs ==
    /\ caps = basic
    /\ NewRenderer
    /\ NewSource
    /\ limit = 0
    /\ recording = FALSE
    /\ wellformed = TRUE
    /\ options = TerminalOptions
    /\ env = NoEnvironment
    /\ windows = FALSE
    /\ detected = <<>>
    /\ calls = <<>>
    /\ cli \in [args : ArgLists(MaxArgs), has_console : BOOLEAN, result : {<<>>}]
    /\ recent = NoRecentFiles
    /\ viewer = NoViewer

\* main: `match parse_args(has_console)`
ParseArgs ==
    /\ cli.result = <<>>
    /\ cli' = [cli EXCEPT !.result = <<parse_args(cli.args, cli.has_console)>>]
    /\ UNCHANGED <<rvars, stack, nev, limit, phase, ev, recording, hist, plain,
                   wellformed, options, env, windows, detected, calls, recent, viewer>>

NextArgs == ParseArgs

\* the program started with any command line, with and without a console
SpecArgs == InitArgs /\ [][NextArgs]_vars

\* the format options given on the command line, --terminal being --term
FormatsGiven(args) ==
    {f \in {"term", "html", "body", "text"} :
        \E i \in DOMAIN args :
            \/ f = "term" /\ args[i] \in {<<"-", "-", "t", "e", "r", "m">>,
                                          <<"-", "-", "t", "e", "r", "m", "i", "n", "a", "l">>}
            \/ f = "html" /\ args[i] = <<"-", "-", "h", "t", "m", "l">>
            \/ f = "body" /\ args[i] = <<"-", "-", "b", "o", "d", "y">>
            \/ f = "text" /\ args[i] = <<"-", "-", "t", "e", "x", "t">>}

\* the positions of the arguments that are file paths
PathsGiven(args) == {i \in DOMAIN args : args[i] = <<>> \/ args[i][1] # "-"}

GuiGiven(args) == \E i \in DOMAIN args : args[i] = <<"-", "-", "g", "u", "i">>

---------------------------------------------------------------------------
\* the position of the last reset escape in s, 0 when it holds none
LastResetIn(s) ==
    SetMax({0} \cup {i \in 1..(Len(s) - 3) : SubSeq(s, i, i + 3) = <<ESC, "[", "0", "m">>})

\* the escape was written to s after the last reset
InEffect(s, escape) == Contains(SubSeq(s, LastResetIn(s) + 1, Len(s)), escape)

(* C30: with basic_ansi, whenever a Text event appends its text to output, *)
(* the escape of every style whose flag is set (bold for in_strong, italic *)
(* for in_emphasis, strikethrough for in_strikethrough) and, while         *)
(* in_heading is set, the bold and the color of the heading were written   *)
(* after the last reset, whatever event wrote that reset.                  *)
C30_StylesInEffect ==
    [][(caps.basic_ansi /\ Handles("Text") /\ pending_link = <<>> /\ ~in_table) =>
            /\ in_strong => InEffect(output, BOLD)
            /\ in_emphasis => InEffect(output, ITALIC)
            /\ in_strikethrough => InEffect(output, STRIKETHROUGH)
            /\ in_heading # <<>> =>
                    /\ InEffect(output, BOLD)
                    /\ InEffect(output, HeadingColor(in_heading[1]))]_vars

---------------------------------------------------------------------------
(* C31: for a link outside a table, what is handed over between Start Link *)
(* and End Link is rendered inside the link: while the link is pending no  *)
(* event appends to output, which gets the link and its content only at    *)
(* End Link, so that visible text stands in the order of its events.       *)
C31_LinkContentInside ==
    [][(wellformed /\ pending_link # <<>> /\ ~in_table /\ ~EndsPendingLink /\ ~Finishes) =>
            output' = output]_vars

---------------------------------------------------------------------------
InitSgr ==
    /\ caps \in {c \in AllCaps : c.basic_ansi /\ c.unicode}
    /\ NewRenderer
    /\ ParserOf(TerminalOptions)
    /\ limit = MaxSgrEvents
    /\ recording = FALSE

NextSgr ==
    \/ StartHeading
    \/ EndHeading
    \/ StartParagraph
    \/ EndParagraph
    \/ StyleEvents
    \/ LinkEvents
    \/ Text
    \/ InlineCode
    \/ Finish

\* styled documents on a terminal with basic_ansi (unicode, which no event
\* of these documents asks, is set)
SpecSgr == InitSgr /\ [][NextSgr]_vars

\* the positions in s where an OSC-8 sequence starts, in order
Osc8At(s) ==
    LET P == {i \in 1..(Len(s) - 4) : SubSeq(s, i, i + 4) = <<ESC, "]", "8", ";", ";">>}
        RECURSIVE Sorted(_)
        Sorted(Q) == IF Q = {} THEN <<>> ELSE <<SetMin(Q)>> \o Sorted(Q \ {SetMin(Q)})
    IN  Sorted(P)

\* the OSC-8 sequence at position i has an empty destination: it ends a link
IsOsc8End(s, i) == i + 6 <= Len(s) /\ SubSeq(s, i + 5, i + 6) = <<ESC, "\\">>

---------------------------------------------------------------------------
(* C33: the marker of a list item and the first text of the item are on    *)
(* the same output line: the event that follows Start Item, the Text of a  *)
(* tight item or the Start Paragraph of a loose one, appends no newline    *)
(* after the marker.                                                       *)
C33_MarkerOnTextLine ==
    [][(wellformed /\ ev.k = "StartItem"
            /\ (Handles("Text") \/ Handles("StartParagraph"))) =>
            NL \notin Range(Appended)]_vars

---------------------------------------------------------------------------
(* C34: when a document holds several tables, a table after the first is   *)
(* rendered from the rows and cells of its own Table span alone: at its    *)
(* End Table the buffered grid is the rows the events gave since its Start *)
(* Table, and the row lines written are the lines of these rows, in their  *)
(* order, with no row or cell of an earlier table among them.              *)
C34_OwnRowsOnly ==
    [][(wellformed /\ Handles("EndTable") /\ EventsOf(hist, "StartTable") >= 2) =>
        \A own \in {GridOf(hist)} :
        \A W \in {ExpectedWidths(own)} :
        \A v \in {IF caps.unicode THEN "U+2502" ELSE "|"} :
        \A ls \in {Lines(Appended)} :
            /\ table_rows = own
            /\ Len(ls) = Len(own) + 4
            /\ \A r \in DOMAIN own :
                    StripSgr(ls[IF r = 1 THEN 2 ELSE r + 2])
                        = <<v>> \o ExpectedCells(own[r], 1, W, v)]_vars

\* the second table of a document was drawn without the cell of the first
C34_Witness ==
    /\ wellformed
    /\ ev.k = "EndTable"
    /\ caps = basic
    /\ table_rows = << << <<"a">> >> >>
    /\ Contains(output, <<"|", " ", "a", "b", "c", "d", " ", "|", NL>>)
    /\ EndsWith(output, <<"+", "-", "-", "-", "-", "-", "+", NL,
                          "|", " ", "a", " ", " ", " ", "|", NL,
                          "+", "-", "-", "-", "-", "-", "+", NL,
                          "+", "-", "-", "-", "-", "-", "+", NL, NL>>)

---------------------------------------------------------------------------
(* C35: in every environment and on either platform, a profile returned by *)
(* detect that has hyperlinks also has basic_ansi and unicode: detect      *)
(* never gives a profile that writes OSC 8 hyperlinks while ANSI styling   *)
(* is off.                                                                 *)
C35_HyperlinksNeedAnsi ==
    detected # <<>> =>
        (detected[1].hyperlinks => (detected[1].basic_ansi /\ detected[1].unicode))

\* hyperlinks found from TERM alone, off Windows and outside the full hosts
C35_Witness ==
    /\ detected # <<>>
    /\ ~windows
    /\ ~is_full_host(env)
    /\ detected[1].hyperlinks
    /\ ~detected[1].true_color

---------------------------------------------------------------------------
(* C39, as stated: after End Table the table state is cleared: in_table is *)
(* false and table_rows, table_row and current_cell are empty.             *)
C39_TableStateCleared ==
    [][(wellformed /\ Handles("EndTable")) =>
            /\ ~in_table'
            /\ table_rows' = <<>>
            /\ table_row' = <<>>
            /\ current_cell' = <<>>]_vars

(* C39, as the code has it: End Table sets in_table to false and leaves    *)
(* the three row buffers as they are; each buffer is emptied when its next *)
(* span starts: table_rows at Start Table, table_row at Start TableHead    *)
(* and Start TableRow, current_cell at Start TableCell.                    *)
C39_ClearedAtStart ==
    [][/\ Handles("EndTable") =>
            /\ ~in_table'
            /\ table_rows' = table_rows
            /\ table_row' = table_row
            /\ current_cell' = current_cell
       /\ Handles("StartTable") => (in_table' /\ table_rows' = <<>>)
       /\ (Handles("StartTableHead") \/ Handles("StartTableRow")) => table_row' = <<>>
       /\ Handles("StartTableCell") => current_cell' = <<>>]_vars

\* a table has ended and its rows, last row and last cell are still buffered
C39_Witness ==
    /\ wellformed
    /\ ev.k = "EndTable"
    /\ ~in_table
    /\ Len(table_rows) = 2
    /\ table_row # <<>>
    /\ current_cell # <<>>

---------------------------------------------------------------------------
(* main.rs, the recent files at work.  The registry of a user starts empty *)
(* or as earlier processes of the program left it: after two files, or     *)
(* after as many files as the list holds.  All files are on disk at first; *)
(* a user deletes some of them.                                            *)

\* the files a user opens, and the files a user deletes
OpenedPaths == {1, 2, NPaths}

DeletedPaths == {1, 2}

\* the lists that earlier processes saved
SavedLists == {<<>>, <<2, 1>>, [i \in 1 .. RecentSlots |-> i]}

InitRecent ==
    /\ caps = basic
    /\ NewRenderer
    /\ NewSource
    /\ limit = 0
    /\ recording = FALSE
    /\ wellformed = TRUE
    /\ options = TerminalOptions
    /\ env = NoEnvironment
    /\ windows = FALSE
    /\ detected = <<>>
    /\ calls = <<>>
    /\ cli = NoCommandLine
    /\ viewer = NoViewer
    /\ recent \in [files : {<<>>},
                   registry : {save_recent_files(EmptyRegistry, l) : l \in SavedLists},
                   disk : {Paths},
                   started : {FALSE},
                   op : {<<>>}]

recentFrame ==
    <<rvars, stack, nev, limit, phase, ev, recording, hist, plain,
      wellformed, options, env, windows, detected, calls, cli, viewer>>

\* run_gui_inner, in a new process: `let recent = load_recent_files();`
\* and the assignment to RECENT_FILES
LoadRecentFiles ==
    /\ recent' = [recent EXCEPT
            !.files = load_recent_files(recent.registry, recent.disk),
            !.started = TRUE,
            !.op = <<"load">>]
    /\ UNCHANGED recentFrame

\* add_to_recent_files(file_path), for a file that was opened; op keeps the
\* path and the list the call found
AddToRecentFiles ==
    /\ recent.started
    /\ \E file_path \in OpenedPaths \cap recent.disk :
        \A files \in {add_to_recent_files(recent.files, file_path)} :
            recent' = [recent EXCEPT
                !.files = files,
                !.registry = save_recent_files(recent.registry, files),
                !.op = <<"add", file_path, recent.files>>]
    /\ UNCHANGED recentFrame

\* a file is deleted from disk
DeleteFile ==
    /\ \E path \in DeletedPaths \cap recent.disk :
            recent' = [recent EXCEPT !.disk = @ \ {path}, !.op = <<"delete">>]
    /\ UNCHANGED recentFrame

NextRecent == LoadRecentFiles \/ AddToRecentFiles \/ DeleteFile

SpecRecent == InitRecent /\ [][NextRecent]_vars

\* the list holds no path twice
NoDuplicates(files) ==
    \A i, j \in DOMAIN files : files[i] = files[j] => i = j

---------------------------------------------------------------------------
(* C36: after add_to_recent_files the list holds no path twice, has at     *)
(* most ten entries, has the added path at index 0, and keeps the other    *)
(* entries in the order they had before the call.                          *)
C36_RecentListKept ==
    (recent.op # <<>> /\ recent.op[1] = "add") =>
        /\ NoDuplicates(recent.files)
        /\ Len(recent.files) <= RecentSlots
        /\ recent.files[1] = recent.op[2]
        /\ \E n \in 0 .. RecentSlots :
                Tail(recent.files) = truncate(retain_other(recent.op[3], recent.op[2]), n)

---------------------------------------------------------------------------
(* C37: the recent files round-trip through the registry: after a list of  *)
(* files that exist was saved, whatever the registry held before,          *)
(* load_recent_files returns that list, the same paths in the same order,  *)
(* with no entry of an earlier list among them.                            *)
C37_SavedListLoaded ==
    (recent.op # <<>> /\ recent.op[1] = "add" /\ Range(recent.files) \subseteq recent.disk) =>
        load_recent_files(recent.registry, recent.disk) = recent.files

---------------------------------------------------------------------------
(* viewer.rs, create_viewer at work: the thread of the host calls          *)
(* create_viewer and close_window; while create_viewer waits, each pass of *)
(* its loop is one step: the timeout, a message that runs a callback,      *)
(* WM_QUIT, or a sleep when the queue is empty.  A pass ends with the test *)
(* of the loop, and the pass that leaves the loop ends with the return of  *)
(* create_viewer.                                                          *)

InitViewer ==
    /\ caps = basic
    /\ NewRenderer
    /\ NewSource
    /\ limit = 0
    /\ recording = FALSE
    /\ wellformed = TRUE
    /\ options = TerminalOptions
    /\ env = NoEnvironment
    /\ windows = FALSE
    /\ detected = <<>>
    /\ calls = <<>>
    /\ cli = NoCommandLine
    /\ recent = NoRecentFiles
    /\ viewer = NoViewer

viewerFrame ==
    <<rvars, stack, nev, limit, phase, ev, recording, hist, plain,
      wellformed, options, env, windows, detected, calls, cli, recent>>

\* the call that waits in its message loop, before the timeout
Waiting == viewer.call # <<>> /\ viewer.call[1].elapsed <= TimeoutTicks

\* create_viewer, up to the message loop: CreateWindowExW fails, or the
\* window exists and the environment was asked for; the result of
\* CreateCoreWebView2EnvironmentWithOptions is dropped, so the callback is
\* to come ("pending") or never comes ("none")
CreateViewer ==
    /\ viewer.call = <<>>
    /\ viewer.next_hwnd <= MaxViewers
    /\ \/ viewer' = [viewer EXCEPT !.returned = <<[st |-> "Err", hwnd |-> 0]>>]
       \/ \E e \in {"pending", "none"} :
            viewer' = [viewer EXCEPT
                !.next_hwnd = @ + 1,
                !.windows = @ \cup {viewer.next_hwnd},
                !.returned = <<>>,
                !.call = <<[hwnd |-> viewer.next_hwnd, completed |-> FALSE,
                            error |-> FALSE, controller |-> FALSE,
                            env |-> e, ctrl |-> "none", elapsed |-> 0]>>]
    /\ UNCHANGED viewerFrame

\* a pass that dispatches the message of the environment callback
EnvironmentCompleted ==
    /\ Waiting
    /\ viewer.call[1].env = "pending"
    /\ \E c \in {[viewer.call[1] EXCEPT !.env = "done", !.error = TRUE, !.completed = TRUE]}
            \cup {[viewer.call[1] EXCEPT !.env = "done", !.ctrl = k] : k \in {"pending", "none"}} :
            viewer' = loop_test(viewer, c)
    /\ UNCHANGED viewerFrame

\* a pass that dispatches the message of the controller callback
ControllerCompleted ==
    /\ Waiting
    /\ viewer.call[1].ctrl = "pending"
    /\ \E c \in {[viewer.call[1] EXCEPT !.ctrl = "done", !.error = TRUE, !.completed = TRUE],
                 [viewer.call[1] EXCEPT !.ctrl = "done", !.controller = TRUE, !.completed = TRUE]} :
            viewer' = loop_test(viewer, c)
    /\ UNCHANGED viewerFrame

\* a pass that finds no message and sleeps
Sleep ==
    /\ Waiting
    /\ viewer' = loop_test(viewer, [viewer.call[1] EXCEPT !.elapsed = @ + 1])
    /\ UNCHANGED viewerFrame

\* a pass that finds the 30 seconds over
Timeout ==
    /\ viewer.call # <<>>
    /\ viewer.call[1].elapsed > TimeoutTicks
    /\ viewer' = after_loop(viewer, [viewer.call[1] EXCEPT !.error = TRUE])
    /\ UNCHANGED viewerFrame

\* a pass that takes WM_QUIT from the queue
Quit ==
    /\ Waiting
    /\ viewer' = after_loop(viewer, viewer.call[1])
    /\ UNCHANGED viewerFrame

\* close_window
CloseWindow ==
    /\ viewer.call = <<>>
    /\ \E hwnd \in viewer.windows :
            viewer' = [viewer EXCEPT !.CONTROLLERS = @ \ {hwnd},
                                     !.windows = @ \ {hwnd},
                                     !.returned = <<>>]
    /\ UNCHANGED viewerFrame

NextViewer ==
    \/ CreateViewer
    \/ EnvironmentCompleted
    \/ ControllerCompleted
    \/ Sleep
    \/ Timeout
    \/ Quit
    \/ CloseWindow

SpecViewer == InitViewer /\ [][NextViewer]_vars

---------------------------------------------------------------------------
(* C38: when create_viewer has returned Ok(hwnd), a controller for hwnd is *)
(* stored in CONTROLLERS; when it has returned an error after the window   *)
(* was created, whatever ended the wait, the window is destroyed.          *)
C38_OkOnlyWithController ==
    viewer.returned # <<>> =>
        /\ viewer.returned[1].st = "Ok" =>
                viewer.returned[1].hwnd \in viewer.CONTROLLERS
        /\ (viewer.returned[1].st = "Err" /\ viewer.returned[1].hwnd # 0) =>
                viewer.returned[1].hwnd \notin viewer.windows

=============================================================================
